---- MODULE Spec2Model ----
(***************************************************************************)
(* A model of the game-state core of tetris_rust_clone (src/src/main.rs).  *)
(*                                                                         *)
(* GameState is a record; every method of GameState is an operator from    *)
(* the state before the call to the state after it, composed in the order  *)
(* the code calls them.  One iteration of the main loop (start_game when   *)
(* Space is pressed, update, draw) is one action, Frame.                   *)
(*                                                                         *)
(* Time: a duration is an f32.  The f32 values that are whole multiples of  *)
(* 2^-30 second and below 2 seconds are written as integers, the number of *)
(* such ticks; sums and differences are rounded to 24 significant bits as  *)
(* f32 arithmetic rounds them (F32Add, F32Sub).  Every f32 frame time of   *)
(* 1/128 second or more is such a value, and so are the constants of the   *)
(* code.                                                                   *)
(*                                                                         *)
(* Option<T>: None is <<>>, Some(v) is <<v>>.                              *)
(***************************************************************************)
EXTENDS Integers, Sequences, FiniteSets, TLC

VARIABLES
    board, tetromino, next_tetromino, hold_tetromino, hold_used,
    started, paused, in_panic, game_over, lines_cleared, score,
    left_timer, right_timer, fall_timer, line_clear_timer, clearing_lines,
    active_squares, next_piece_id, mus_mgr, piece_statistics,
    panicked,     \* the process has aborted on a Rust panic (unwrap of None, index out of range)
    keys_down,    \* environment: the keys that were down in the previous frame
    frames,       \* number of frames run since Init
    log,          \* observation: the method calls of the last frame, each with the state before and after
    h_left,       \* observation: the left-key auto-repeat history (see AutoRepeat below)
    h_right,      \* observation: the right-key auto-repeat history
    h_clear,      \* observation: the time ticks have run since a lock left rows pending
    h_blink,      \* observation: the phases of the registered bonus squares
    probe         \* observation: a direct call of check_collision on the board, with its result

vars == <<board, tetromino, next_tetromino, hold_tetromino, hold_used,
          started, paused, in_panic, game_over, lines_cleared, score,
          left_timer, right_timer, fall_timer, line_clear_timer, clearing_lines,
          active_squares, next_piece_id, mus_mgr, piece_statistics,
          panicked, keys_down, frames, log, h_left, h_right, h_clear, h_blink, probe>>

-----------------------------------------------------------------------------
(* Option *)
None == <<>>
Some(v) == <<v>>
IsSome(o) == o /= <<>>
Unwrap(o) == o[1]

\* one statement after another: v is computed once and F goes on from its value
Then(v, F(_)) == CHOOSE r \in {F(x) : x \in {v}} : TRUE

-----------------------------------------------------------------------------
(* f32 arithmetic on the durations *)

\* ticks of 2^-30 second in one second
TICKS == 1073741824

\* the spacing of the f32 values at magnitude a: the least power of two u with a / u < 2^24
RECURSIVE Ulp(_, _)
Ulp(a, u) == IF a \div u < 16777216 THEN u ELSE Ulp(a, 2 * u)

\* the multiple of the spacing u nearest to a, for a not negative, ties to the even
\* multiple; more: the exact value lies above a by less than one tick
Nearest(a, u, more) ==
    IF \/ 2 * (a % u) > u
       \/ 2 * (a % u) = u /\ (more \/ (a \div u) % 2 = 1)
      THEN a - (a % u) + u
      ELSE a - (a % u)

\* the f32 nearest to v: the magnitude is rounded and the sign kept
F32Round(v, more) ==
    Then(v, LAMBDA x : IF x < 0 THEN 0 - Nearest(0 - x, Ulp(0 - x, 1), more)
                                ELSE Nearest(x, Ulp(x, 1), more))

\* a + b and a - b of two f32
F32Add(a, b) == F32Round(a + b, FALSE)

F32Sub(a, b) == F32Round(a - b, FALSE)

\* the f32 nearest to p / q second, for p / q of 1/128 or more: the value of a decimal
\* literal and of the f32 quotient of two small whole numbers
F32Div(p, q) ==
    IF p * (TICKS \div q) + (p * (TICKS % q)) \div q < 16777216
      THEN IF \/ 2 * ((p * (TICKS % q)) % q) > q
              \/ 2 * ((p * (TICKS % q)) % q) = q
                    /\ (p * (TICKS \div q) + (p * (TICKS % q)) \div q) % 2 = 1
             THEN p * (TICKS \div q) + (p * (TICKS % q)) \div q + 1
             ELSE p * (TICKS \div q) + (p * (TICKS % q)) \div q
      ELSE F32Round(p * (TICKS \div q) + (p * (TICKS % q)) \div q, (p * (TICKS % q)) % q > 0)

-----------------------------------------------------------------------------
(* Game constants, main.rs:30-46 *)
GRID_WIDTH == 10
GRID_HEIGHT == 20
FALL_SPEED == 3
SOFT_DROP_SPEED == 15
INITIAL_HORIZONTAL_DELAY == F32Div(2, 10)
HORIZONTAL_REPEAT_DELAY == F32Div(1, 10)
GOLD_POINTS == 500
SILVER_POINTS == 200
LINE_CLEAR_DELAY == F32Div(27, 100)
SQUARE_PHASE == F32Div(3, 10)
SQUARE_BLINKS == 6
PANIC_FULLNESS == 12
MUSIC_LIST_LEN == 3

\* 1.0 / speed
FallInterval(speed) == F32Div(1, speed)

GOLD_COLOR == "gold"
SILVER_COLOR == "silver"
BLACK_COLOR == "black"

MovableTypes == <<"I", "O", "T", "S", "Z", "J", "L">>
Movable == {MovableTypes[i] : i \in 1..7}
BonusTypes == {"BonusGold", "BonusSilver"}

\* t_type as usize
TypeIndex(t) ==
    CASE t = "I" -> 0 [] t = "O" -> 1 [] t = "T" -> 2 [] t = "S" -> 3
      [] t = "Z" -> 4 [] t = "J" -> 5 [] t = "L" -> 6
      [] t = "BonusGold" -> 7 [] t = "BonusSilver" -> 8

NES_COLORS == <<"cyan", "yellow", "purple", "green", "red", "blue", "orange">>

TETROMINO_SHAPES ==
    << << <<0,0>>, <<1,0>>, <<2,0>>, <<3,0>> >>,
       << <<0,0>>, <<1,0>>, <<0,1>>, <<1,1>> >>,
       << <<1,0>>, <<0,1>>, <<1,1>>, <<2,1>> >>,
       << <<1,0>>, <<2,0>>, <<0,1>>, <<1,1>> >>,
       << <<0,0>>, <<1,0>>, <<1,1>>, <<2,1>> >>,
       << <<0,0>>, <<0,1>>, <<1,1>>, <<2,1>> >>,
       << <<0,0>>, <<1,0>>, <<2,0>>, <<0,1>> >> >>

TETROMINO_ROTATION_OFFSETS ==
    << <<1,0>>, <<0,0>>, <<1,1>>, <<1,1>>, <<1,1>>, <<1,1>>, <<1,1>> >>

SpawnPos == <<GRID_WIDTH \div 2 - 2, 0>>

\* Tetromino::new
NewTetromino(t) ==
    [shape |-> TETROMINO_SHAPES[TypeIndex(t) + 1],
     pos |-> SpawnPos,
     color |-> NES_COLORS[TypeIndex(t) + 1],
     t_type |-> t]

rotate_shape(shape, t_type, clockwise) ==
    LET pivot == TETROMINO_ROTATION_OFFSETS[TypeIndex(t_type) + 1]
        pivot_x == pivot[1]
        pivot_y == pivot[2]
    IN  [i \in 1..4 |->
            LET rel_x == shape[i][1] - pivot_x
                rel_y == shape[i][2] - pivot_y
            IN  IF clockwise
                  THEN <<pivot_x + rel_y, pivot_y - rel_x>>
                  ELSE <<pivot_x - rel_y, pivot_y + rel_x>>]

-----------------------------------------------------------------------------
(* Board *)
Rows == 0..(GRID_HEIGHT - 1)
Cols == 0..(GRID_WIDTH - 1)
EmptyRow == [x \in Cols |-> None]
EmptyBoard == [y \in Rows |-> EmptyRow]

\* a check_collision that takes the rows above the grid for free cells
check_collision_open_top(b, shape, pos) ==
    \E i \in 1..4 :
        LET x == pos[1] + shape[i][1]
            y == pos[2] + shape[i][2]
        IN  \/ x < 0 \/ x >= GRID_WIDTH \/ y >= GRID_HEIGHT
            \/ (y >= 0 /\ IsSome(b[y][x]))

\* the loop of check_collision from cell i on, with its two early returns
RECURSIVE collision_from(_, _, _, _)
collision_from(b, shape, pos, i) ==
    IF i > 4 THEN FALSE
    ELSE LET x == pos[1] + shape[i][1]
             y == pos[2] + shape[i][2]
         IN  IF x < 0 \/ x >= GRID_WIDTH \/ y < 0 \/ y >= GRID_HEIGHT THEN TRUE
             ELSE IF IsSome(b[y][x]) THEN TRUE
             ELSE collision_from(b, shape, pos, i + 1)

check_collision(b, shape, pos) == collision_from(b, shape, pos, 1)

-----------------------------------------------------------------------------
(* Observation: every logged call keeps the state before and after it.     *)
Snap(s) == [s EXCEPT !.log = <<>>]

LogEv(op, pre, post) ==
    [post EXCEPT !.log = Append(post.log, [op |-> op, pre |-> Snap(pre), post |-> Snap(post)])]

\* is_key_pressed / is_key_down / get_frame_time of the frame's input snapshot
is_key_pressed(in, k) == k \in in.pressed
is_key_down(in, k) == k \in in.down

\* rng.gen_range(0..7): the frame's input carries the values the generator yields
RngType(s, in) ==
    LET n == Len(in.rnd)
    IN  in.rnd[IF s.draws + 1 <= n THEN s.draws + 1 ELSE n]

RngStep(s) == [s EXCEPT !.draws = @ + 1]

-----------------------------------------------------------------------------
(* MusicManager, main.rs:71-172 *)
NewMusicManager == [mus_track |-> 0, muted |-> FALSE, paused |-> FALSE, panic |-> FALSE]

play_song(s) == [s EXCEPT !.mus_mgr.mus_track = @ + 1]

\* track_index = mus_track - (1 % 3) in u32, computed before panic is tested: at mus_track
\* 0 a build with overflow checks aborts on the subtraction, a build without them wraps to
\* 2^32 - 1; MUSIC_LIST[track_index] is read only when panic has been set
toggle_panic(s) ==
    LET p == ~s.mus_mgr.panic
        s1 == [s EXCEPT !.mus_mgr.panic = p]
        wrapped == s.mus_mgr.mus_track = 0
        out_of_range == wrapped \/ s.mus_mgr.mus_track - 1 >= MUSIC_LIST_LEN
    IN  IF wrapped /\ s.overflow_checks THEN [s1 EXCEPT !.panicked = TRUE]
        ELSE IF p /\ out_of_range THEN [s1 EXCEPT !.panicked = TRUE]
        ELSE s1

mute(s) == [s EXCEPT !.mus_mgr.muted = ~@]

pause(s) == [s EXCEPT !.mus_mgr.paused = ~@]

reset(s) == [s EXCEPT !.mus_mgr.mus_track = 0, !.mus_mgr.panic = FALSE]

-----------------------------------------------------------------------------
(* GameState, main.rs:278-787 *)
ZeroStatistics == [t \in Movable |-> 0]

\* GameState::new
NewGameState ==
    [board |-> EmptyBoard,
     tetromino |-> None,
     next_tetromino |-> None,
     hold_tetromino |-> None,
     hold_used |-> FALSE,
     started |-> FALSE,
     paused |-> FALSE,
     in_panic |-> FALSE,
     game_over |-> FALSE,
     lines_cleared |-> 0,
     score |-> 0,
     left_timer |-> 0,
     right_timer |-> 0,
     fall_timer |-> 0,
     line_clear_timer |-> 0,
     clearing_lines |-> <<>>,
     active_squares |-> <<>>,
     next_piece_id |-> 1,
     mus_mgr |-> NewMusicManager,
     piece_statistics |-> ZeroStatistics,
     panicked |-> FALSE,
     overflow_checks |-> TRUE,
     draws |-> 0,
     log |-> <<>>]

start_game(s, in) ==
    LET curr_type == RngType(s, in)
        s1 == RngStep(s)
        next_type == RngType(s1, in)
        s2 == RngStep(s1)
        s3 == [s2 EXCEPT
                 !.started = TRUE,
                 !.game_over = FALSE,
                 !.paused = FALSE,
                 !.in_panic = FALSE,
                 !.lines_cleared = 0,
                 !.score = 0,
                 !.board = EmptyBoard,
                 !.hold_tetromino = None,
                 !.hold_used = FALSE,
                 !.line_clear_timer = 0,
                 !.clearing_lines = <<>>,
                 !.active_squares = <<>>,
                 !.next_piece_id = 1,
                 !.piece_statistics = [ZeroStatistics EXCEPT ![curr_type] = 1],
                 !.tetromino = Some(NewTetromino(curr_type)),
                 !.next_tetromino = Some(NewTetromino(next_type))]
    IN  LogEv("start_game", s, play_song(reset(s3)))

RowSeq == [i \in 1..GRID_HEIGHT |-> i - 1]

Contains(seq, v) == \E i \in 1..Len(seq) : seq[i] = v

RowFull(b, y) == \A x \in Cols : IsSome(b[y][x])

\* a spawn that ends the game on a blocked spawn position but leaves started set
spawn_keeps_started(s, in) ==
    IF ~s.started THEN s
    ELSE IF ~IsSome(s.next_tetromino) THEN s
    ELSE LET next_t == Unwrap(s.next_tetromino)
         IN  IF check_collision(s.board, next_t.shape, next_t.pos)
               THEN LogEv("spawn", s, [s EXCEPT !.game_over = TRUE])
               ELSE LET t_type == RngType(s, in)
                    IN  LogEv("spawn", s,
                          [RngStep(s) EXCEPT
                             !.tetromino = Some(next_t),
                             !.piece_statistics[next_t.t_type] = @ + 1,
                             !.next_tetromino = Some(NewTetromino(t_type)),
                             !.hold_used = FALSE,
                             !.fall_timer = 0])

\* a spawn that finds its position blocked and returns without ending the game
spawn_fails_silently(s, in) ==
    IF ~s.started THEN s
    ELSE IF ~IsSome(s.next_tetromino) THEN s
    ELSE LET next_t == Unwrap(s.next_tetromino)
         IN  IF check_collision(s.board, next_t.shape, next_t.pos)
               THEN LogEv("spawn", s, s)
               ELSE LET t_type == RngType(s, in)
                    IN  LogEv("spawn", s,
                          [RngStep(s) EXCEPT
                             !.tetromino = Some(next_t),
                             !.piece_statistics[next_t.t_type] = @ + 1,
                             !.next_tetromino = Some(NewTetromino(t_type)),
                             !.hold_used = FALSE,
                             !.fall_timer = 0])

\* spawn_new_tetromino, main.rs:445-471
spawn_new_tetromino(s, in) ==
    IF ~s.started THEN s
    ELSE IF ~IsSome(s.next_tetromino) THEN s
    ELSE LET next_t == Unwrap(s.next_tetromino)
         IN  IF check_collision(s.board, next_t.shape, next_t.pos)
               THEN LogEv("spawn", s, [s EXCEPT !.game_over = TRUE, !.started = FALSE])
               ELSE LET t_type == RngType(s, in)
                    IN  LogEv("spawn", s,
                          [RngStep(s) EXCEPT
                             !.tetromino = Some(next_t),
                             !.piece_statistics[next_t.t_type] = @ + 1,
                             !.next_tetromino = Some(NewTetromino(t_type)),
                             !.hold_used = FALSE,
                             !.fall_timer = 0])

-----------------------------------------------------------------------------
(* Square detection, main.rs:476-560 *)
InBonus(cell) == cell[2] \in BonusTypes

\* lines 482-498: every cell of the window is Some and none is a bonus cell
all_filled(b, x, y) ==
    \A dy \in 0..3 : \A dx \in 0..3 :
        IsSome(b[y + dy][x + dx]) /\ ~InBonus(Unwrap(b[y + dy][x + dx]))

window_original(b, x, y) == [dy \in 0..3 |-> [dx \in 0..3 |-> Unwrap(b[y + dy][x + dx])]]

\* lines 502-509: the distinct piece ids of the window in row-major order of first occurrence
RECURSIVE region_ids(_, _, _)
region_ids(original, k, acc) ==
    IF k > 15 THEN acc
    ELSE LET id == original[k \div 4][k % 4][3]
         IN  region_ids(original, k + 1, IF Contains(acc, id) THEN acc ELSE Append(acc, id))

\* a validity test that looks at the first piece of the window only
candidate_valid_first(b, x, y, pieces) ==
    \A row \in Rows : \A col \in Cols :
        (IsSome(b[row][col]) /\ Unwrap(b[row][col])[3] = pieces[1])
            => ~(col < x \/ col >= x + 4 \/ row < y \/ row >= y + 4)

\* lines 510-533: no board cell carrying one of the ids lies outside the window
candidate_valid(b, x, y, pieces) ==
    \A i \in 1..Len(pieces) : \A row \in Rows : \A col \in Cols :
        (IsSome(b[row][col]) /\ Unwrap(b[row][col])[3] = pieces[i])
            => ~(col < x \/ col >= x + 4 \/ row < y \/ row >= y + 4)

\* lines 534-544: the type of the first window cell of each id
first_type(original, pid) ==
    LET k == CHOOSE k \in 0..15 :
                 /\ original[k \div 4][k % 4][3] = pid
                 /\ \A j \in 0..(k - 1) : original[j \div 4][j % 4][3] /= pid
    IN  original[k \div 4][k % 4][2]

region_types(original, pieces) == [i \in 1..Len(pieces) |-> first_type(original, pieces[i])]

\* lines 479-545: the window with top-left corner (x, y) passes every test before line 546
window_qualifies(b, x, y) ==
    /\ all_filled(b, x, y)
    /\ candidate_valid(b, x, y, region_ids(window_original(b, x, y), 0, <<>>))

\* a classification that compares the kinds of the first two pieces only
window_first_two_same(b, x, y) ==
    LET original == window_original(b, x, y)
        types == region_types(original, region_ids(original, 0, <<>>))
    IN  Len(types) < 2 \/ types[1] = types[2]

\* lines 534-545
window_all_same(b, x, y) ==
    LET original == window_original(b, x, y)
        types == region_types(original, region_ids(original, 0, <<>>))
    IN  \A i \in 1..Len(types) : types[i] = types[1]

\* a test that compares the column of an effect with the row of the window and its row
\* with the column
anchored_swapped(squares, x, y) ==
    \E i \in 1..Len(squares) : squares[i].x = y /\ squares[i].y = x

\* line 546
anchored(squares, x, y) == \E i \in 1..Len(squares) : squares[i].x = x /\ squares[i].y = y

\* lines 549-557
new_square(b, x, y) ==
    [x |-> x, y |-> y, is_gold |-> window_all_same(b, x, y),
     timer |-> SQUARE_PHASE, flash_on |-> TRUE,
     blinks_remaining |-> SQUARE_BLINKS,
     original |-> window_original(b, x, y)]

\* the windows in the order of the two loops: y outer 0..16, x inner 0..6
WindowSeq ==
    [w \in 1..((GRID_HEIGHT - 3) * (GRID_WIDTH - 3)) |->
        <<(w - 1) % (GRID_WIDTH - 3), (w - 1) \div (GRID_WIDTH - 3)>>]

\* the loops push one effect for every window that qualifies and is not anchored yet; the
\* board is not written meanwhile and no window is visited twice, so the pushes of one
\* call are the qualifying, unanchored windows in loop order
squares_pushed(s) ==
    LET hits == SelectSeq(WindowSeq,
                    LAMBDA w : window_qualifies(s.board, w[1], w[2])
                               /\ ~anchored(s.active_squares, w[1], w[2]))
    IN  [i \in 1..Len(hits) |-> new_square(s.board, hits[i][1], hits[i][2])]

check_for_4x4_squares(s) ==
    LogEv("check_for_4x4_squares", s, [s EXCEPT !.active_squares = @ \o squares_pushed(s)])

\* lines 572-585: the effect at (ex, ey) ran out of blinks
convert_square(b, ex, ey, is_gold) ==
    LET bonus_type == IF is_gold THEN "BonusGold" ELSE "BonusSilver"
        square_color == IF is_gold THEN GOLD_COLOR ELSE SILVER_COLOR
    IN  [y \in Rows |-> [x \in Cols |->
            IF y >= ey /\ y < ey + 4 /\ x >= ex /\ x < ex + 4
              THEN Some(<<square_color, bonus_type, 0>>)
              ELSE b[y][x]]]

\* retain_mut over active_squares from index i on; kept collects the retained effects
RECURSIVE effects_from(_, _, _, _)
effects_from(s, dt, i, kept) ==
    IF i > Len(s.active_squares) THEN [s EXCEPT !.active_squares = kept]
    ELSE LET e0 == s.active_squares[i]
             e1 == [e0 EXCEPT !.timer = F32Sub(@, dt)]
             e2 == IF e1.timer <= 0
                     THEN LET f == ~e1.flash_on
                          IN  [e1 EXCEPT !.timer = SQUARE_PHASE,
                                         !.flash_on = f,
                                         !.blinks_remaining =
                                             IF ~f /\ @ > 0 THEN @ - 1 ELSE @]
                     ELSE e1
         IN  IF e2.blinks_remaining = 0
               THEN effects_from(
                      [s EXCEPT !.board = convert_square(@, e2.x, e2.y, e2.is_gold),
                                !.score = @ + (IF e2.is_gold THEN GOLD_POINTS ELSE SILVER_POINTS)],
                      dt, i + 1, kept)
               ELSE effects_from(s, dt, i + 1, Append(kept, e2))

update_square_effects(s, dt) == LogEv("update_square_effects", s, effects_from(s, dt, 1, <<>>))

-----------------------------------------------------------------------------
(* Lock and line clear, main.rs:390-443 *)

\* lines 394-400: the cells of the piece, written one by one, each only if inside the grid
RECURSIVE write_cells(_, _, _, _)
write_cells(b, tetro, id, i) ==
    IF i > 4 THEN b
    ELSE LET x == tetro.pos[1] + tetro.shape[i][1]
             y == tetro.pos[2] + tetro.shape[i][2]
         IN  write_cells(
               IF x >= 0 /\ x < GRID_WIDTH /\ y >= 0 /\ y < GRID_HEIGHT
                 THEN [b EXCEPT ![y][x] = Some(<<tetro.color, tetro.t_type, id>>)]
                 ELSE b,
               tetro, id, i + 1)

\* a lock that tags the cells and leaves the id counter where it is
lock_write_reuses_id(s) ==
    IF IsSome(s.tetromino)
      THEN LET tetro == Unwrap(s.tetromino)
               id == s.next_piece_id
           IN  [s EXCEPT !.board = write_cells(@, tetro, id, 1)]
      ELSE s

\* lines 391-401
lock_write(s) ==
    IF IsSome(s.tetromino)
      THEN LET tetro == Unwrap(s.tetromino)
               id == s.next_piece_id
           IN  [s EXCEPT !.next_piece_id = @ + 1,
                         !.board = write_cells(@, tetro, id, 1)]
      ELSE s

\* a scan that takes a row for full only if every cell holds a cell of a piece, no bonus cell
full_rows_of_pieces(b) ==
    SelectSeq(RowSeq, LAMBDA i : \A x \in Cols : IsSome(b[i][x]) /\ ~InBonus(Unwrap(b[i][x])))

\* lines 402-407
full_rows(b) == SelectSeq(RowSeq, LAMBDA i : RowFull(b, i))

\* a lock that starts the countdown of the pending rows at 0.17
lock_tetromino_short(s, in) ==
    Then(LogEv("lock", s, lock_write(s)), LAMBDA s1 :
        LET rows == full_rows(s1.board)
        IN  IF rows /= <<>>
              THEN [s1 EXCEPT !.clearing_lines = rows, !.line_clear_timer = F32Div(17, 100)]
              ELSE check_for_4x4_squares(spawn_new_tetromino(s1, in)))

\* lines 390-417
lock_tetromino(s, in) ==
    Then(LogEv("lock", s, lock_write(s)), LAMBDA s1 :
        LET rows == full_rows(s1.board)
        IN  IF rows /= <<>>
              THEN [s1 EXCEPT !.clearing_lines = rows, !.line_clear_timer = LINE_CLEAR_DELAY]
              ELSE check_for_4x4_squares(spawn_new_tetromino(s1, in)))

\* a collapse that takes as many rows from the bottom as there are rows pending
collapse_bottom(s) ==
    LET n == Len(s.clearing_lines)
    IN  [s EXCEPT !.board = [y \in Rows |-> IF y < n THEN EmptyRow ELSE s.board[y - n]],
                  !.lines_cleared = @ + n,
                  !.clearing_lines = <<>>]

\* a collapse that scores the removed rows: 500 for a row with a gold bonus cell
collapse_scored(s) ==
    LET kept == SelectSeq(RowSeq, LAMBDA i : ~Contains(s.clearing_lines, i))
        pad == GRID_HEIGHT - Len(kept)
        gold == {y \in Rows : /\ Contains(s.clearing_lines, y)
                              /\ \E x \in Cols : /\ IsSome(s.board[y][x])
                                                  /\ Unwrap(s.board[y][x])[2] = "BonusGold"}
    IN  [s EXCEPT !.board = [y \in Rows |-> IF y < pad THEN EmptyRow ELSE s.board[kept[y - pad + 1]]],
                  !.lines_cleared = @ + Len(s.clearing_lines),
                  !.clearing_lines = <<>>,
                  !.score = @ + GOLD_POINTS * Cardinality(gold)]

\* lines 420-430
collapse(s) ==
    LET kept == SelectSeq(RowSeq, LAMBDA i : ~Contains(s.clearing_lines, i))
        pad == GRID_HEIGHT - Len(kept)
    IN  [s EXCEPT !.board = [y \in Rows |-> IF y < pad THEN EmptyRow ELSE s.board[kept[y - pad + 1]]],
                  !.lines_cleared = @ + Len(s.clearing_lines),
                  !.clearing_lines = <<>>]

clear_lines_delayed(s, in) ==
    Then(LogEv("collapse", s, collapse(s)), LAMBDA s1 :
        IF IsSome(s1.next_tetromino)
             /\ check_collision(s1.board, Unwrap(s1.next_tetromino).shape, Unwrap(s1.next_tetromino).pos)
          THEN LogEv("clear_game_over", s1, [s1 EXCEPT !.game_over = TRUE, !.started = FALSE])
          ELSE check_for_4x4_squares(spawn_new_tetromino(s1, in)))

-----------------------------------------------------------------------------
(* Input and tick, main.rs:592-787 *)
move_tetromino(s, dx, dy) ==
    IF IsSome(s.tetromino)
      THEN [s EXCEPT !.tetromino = Some([Unwrap(@) EXCEPT !.pos = <<@[1] + dx, @[2] + dy>>])]
      ELSE s

set_tetromino_shape(s, shape) ==
    IF IsSome(s.tetromino)
      THEN [s EXCEPT !.tetromino = Some([Unwrap(@) EXCEPT !.shape = shape])]
      ELSE s

\* a drop that goes one row down at most
drop_one_row(s) ==
    IF IsSome(s.tetromino)
         /\ ~check_collision(s.board, Unwrap(s.tetromino).shape,
                             <<Unwrap(s.tetromino).pos[1], Unwrap(s.tetromino).pos[2] + 1>>)
      THEN move_tetromino(s, 0, 1)
      ELSE s

\* lines 595-607: step down while the cell below is free
RECURSIVE drop_loop(_)
drop_loop(s) ==
    LET can_move_down ==
            IF IsSome(s.tetromino)
              THEN LET t == Unwrap(s.tetromino)
                   IN  ~check_collision(s.board, t.shape, <<t.pos[1], t.pos[2] + 1>>)
              ELSE FALSE
    IN  IF ~can_move_down THEN s ELSE drop_loop(move_tetromino(s, 0, 1))

\* lines 594-610
hard_drop(s, in) == LogEv("hard_drop", s, lock_tetromino(drop_loop(s), in))

\* a left-key branch with the two delays exchanged
input_left_swapped(s, in, curr) ==
    LET free == ~check_collision(s.board, curr.shape, <<curr.pos[1] - 1, curr.pos[2]>>)
    IN  IF is_key_pressed(in, "Left")
          THEN IF free
                 THEN [move_tetromino(s, -1, 0) EXCEPT !.left_timer = HORIZONTAL_REPEAT_DELAY]
                 ELSE s
        ELSE IF is_key_down(in, "Left")
          THEN LET s1 == [s EXCEPT !.left_timer = F32Sub(@, in.dt)]
               IN  IF s1.left_timer <= 0 /\ free
                     THEN [move_tetromino(s1, -1, 0) EXCEPT !.left_timer = INITIAL_HORIZONTAL_DELAY]
                     ELSE s1
        ELSE [s EXCEPT !.left_timer = 0]

\* lines 614-633; curr is the copy of the active piece taken at line 613
input_left(s, in, curr) ==
    LET free == ~check_collision(s.board, curr.shape, <<curr.pos[1] - 1, curr.pos[2]>>)
    IN  IF is_key_pressed(in, "Left")
          THEN IF free
                 THEN [move_tetromino(s, -1, 0) EXCEPT !.left_timer = INITIAL_HORIZONTAL_DELAY]
                 ELSE s
        ELSE IF is_key_down(in, "Left")
          THEN LET s1 == [s EXCEPT !.left_timer = F32Sub(@, in.dt)]
               IN  IF s1.left_timer <= 0 /\ free
                     THEN [move_tetromino(s1, -1, 0) EXCEPT !.left_timer = HORIZONTAL_REPEAT_DELAY]
                     ELSE s1
        ELSE [s EXCEPT !.left_timer = 0]

\* lines 635-652
input_right(s, in, curr) ==
    LET free == ~check_collision(s.board, curr.shape, <<curr.pos[1] + 1, curr.pos[2]>>)
    IN  IF is_key_pressed(in, "Right")
          THEN IF free
                 THEN [move_tetromino(s, 1, 0) EXCEPT !.right_timer = INITIAL_HORIZONTAL_DELAY]
                 ELSE s
        ELSE IF is_key_down(in, "Right")
          THEN LET s1 == [s EXCEPT !.right_timer = F32Sub(@, in.dt)]
               IN  IF s1.right_timer <= 0 /\ free
                     THEN [move_tetromino(s1, 1, 0) EXCEPT !.right_timer = HORIZONTAL_REPEAT_DELAY]
                     ELSE s1
        ELSE [s EXCEPT !.right_timer = 0]

\* lines 654-669: Z rotates counter-clockwise, X clockwise, both from the copy curr
input_rotate(s, in, curr, key, clockwise) ==
    IF is_key_pressed(in, key)
      THEN LET new_shape == rotate_shape(curr.shape, curr.t_type, clockwise)
           IN  IF ~check_collision(s.board, new_shape, curr.pos)
                 THEN set_tetromino_shape(s, new_shape)
                 ELSE s
      ELSE s

\* lines 671-678
input_down(s, in, curr) ==
    IF is_key_down(in, "Down")
      THEN LET s1 == [s EXCEPT !.fall_timer = 0]
           IN  IF ~check_collision(s1.board, curr.shape, <<curr.pos[1], curr.pos[2] + 1>>)
                 THEN move_tetromino(s1, 0, 1)
                 ELSE s1
      ELSE s

\* lines 680-686
input_sound(s, in) ==
    LET s1 == IF is_key_pressed(in, "M") THEN mute(s) ELSE s
    IN  IF is_key_pressed(in, "N") THEN play_song(s1) ELSE s1

\* a hold branch that does not look at the hold-used flag
input_hold_unguarded(s, in, curr) ==
    IF is_key_pressed(in, "C")
      THEN LET s1 == [s EXCEPT !.hold_used = TRUE]
               current_piece == [curr EXCEPT !.shape = TETROMINO_SHAPES[TypeIndex(curr.t_type) + 1]]
           IN  IF IsSome(s1.hold_tetromino)
                 THEN LET h0 == Unwrap(s1.hold_tetromino)
                          hold_piece == [h0 EXCEPT
                                           !.shape = TETROMINO_SHAPES[TypeIndex(h0.t_type) + 1],
                                           !.pos = SpawnPos]
                      IN  IF check_collision(s1.board, hold_piece.shape, hold_piece.pos)
                            THEN LogEv("hold", s, [s1 EXCEPT !.hold_tetromino = Some(hold_piece)])
                            ELSE LogEv("hold", s, [s1 EXCEPT !.hold_tetromino = Some(current_piece),
                                                             !.tetromino = Some(hold_piece)])
                 ELSE LogEv("hold", s,
                        spawn_new_tetromino(
                          [s1 EXCEPT !.hold_tetromino = Some(current_piece), !.tetromino = None],
                          in))
      ELSE s

\* lines 688-706
input_hold(s, in, curr) ==
    IF is_key_pressed(in, "C") /\ ~s.hold_used
      THEN LET s1 == [s EXCEPT !.hold_used = TRUE]
               current_piece == [curr EXCEPT !.shape = TETROMINO_SHAPES[TypeIndex(curr.t_type) + 1]]
           IN  IF IsSome(s1.hold_tetromino)
                 THEN LET h0 == Unwrap(s1.hold_tetromino)
                          hold_piece == [h0 EXCEPT
                                           !.shape = TETROMINO_SHAPES[TypeIndex(h0.t_type) + 1],
                                           !.pos = SpawnPos]
                      IN  IF check_collision(s1.board, hold_piece.shape, hold_piece.pos)
                            THEN LogEv("hold", s, [s1 EXCEPT !.hold_tetromino = Some(hold_piece)])
                            ELSE LogEv("hold", s, [s1 EXCEPT !.hold_tetromino = Some(current_piece),
                                                             !.tetromino = Some(hold_piece)])
                 ELSE LogEv("hold", s,
                        spawn_new_tetromino(
                          [s1 EXCEPT !.hold_tetromino = Some(current_piece), !.tetromino = None],
                          in))
      ELSE IF is_key_pressed(in, "C") THEN LogEv("hold", s, s)
      ELSE s

process_input(s, in) ==
    IF is_key_pressed(in, "Up") THEN hard_drop(s, in)
    ELSE IF ~IsSome(s.tetromino) THEN [s EXCEPT !.panicked = TRUE]  \* unwrap of None, line 613
    ELSE LET curr == Unwrap(s.tetromino)
             sL == LogEv("left", s, input_left(s, in, curr))
             sR == LogEv("right", sL, input_right(sL, in, curr))
             sZ == LogEv("rotate_ccw", sR, input_rotate(sR, in, curr, "Z", FALSE))
             sX == LogEv("rotate_cw", sZ, input_rotate(sZ, in, curr, "X", TRUE))
             sD == input_down(sX, in, curr)
             sS == input_sound(sD, in)
         IN  input_hold(sS, in, curr)

\* lines 723-735
check_for_fullness(b) ==
    LET occupied == {y \in Rows : \E x \in Cols : IsSome(b[y][x])}
        y_min == IF occupied = {} THEN 20 ELSE CHOOSE y \in occupied : \A z \in occupied : y <= z
    IN  20 - y_min

\* lines 758-770
gravity(s, in) ==
    IF IsSome(s.tetromino)
      THEN LET curr == Unwrap(s.tetromino)
               speed == IF is_key_down(in, "Down") THEN SOFT_DROP_SPEED ELSE FALL_SPEED
               fall_interval == FallInterval(speed)
               s1 == [s EXCEPT !.fall_timer = F32Add(@, in.dt)]
           IN  IF s1.fall_timer >= fall_interval
                 THEN LET s2 == [s1 EXCEPT !.fall_timer = F32Sub(@, fall_interval)]
                      IN  IF check_collision(s2.board, curr.shape, <<curr.pos[1], curr.pos[2] + 1>>)
                            THEN lock_tetromino(s2, in)
                            ELSE move_tetromino(s2, 0, 1)
                 ELSE s1
      ELSE s

\* a panic test that asks for more than 12 rows
panic_mode_above(s) ==
    LET fullness == check_for_fullness(s.board)
    IN  IF fullness > PANIC_FULLNESS /\ ~s.in_panic
          THEN toggle_panic([s EXCEPT !.in_panic = TRUE])
        ELSE IF fullness <= PANIC_FULLNESS /\ s.in_panic
          THEN toggle_panic([s EXCEPT !.in_panic = FALSE])
        ELSE IF s.mus_mgr.panic /\ ~s.in_panic THEN toggle_panic(s)
        ELSE s

\* lines 772-786
panic_mode(s) ==
    LET fullness == check_for_fullness(s.board)
    IN  IF fullness >= PANIC_FULLNESS /\ ~s.in_panic
          THEN toggle_panic([s EXCEPT !.in_panic = TRUE])
        ELSE IF fullness < PANIC_FULLNESS /\ s.in_panic
          THEN toggle_panic([s EXCEPT !.in_panic = FALSE])
        ELSE IF s.mus_mgr.panic /\ ~s.in_panic THEN toggle_panic(s)
        ELSE s

\* lines 757-786: the tick once pause, run flags and the pending clear let it through
full_pipeline(s, in) ==
    Then(LogEv("process_input", s, process_input(s, in)), LAMBDA s1 :
        IF s1.panicked THEN s1
        ELSE Then(LogEv("gravity", s1, gravity(s1, in)), LAMBDA s2 :
                 Then(update_square_effects(s2, in.dt), LAMBDA s3 : panic_mode(s3))))

\* a tick that goes on to input and gravity while a line clear is pending
update_through_clear(s, in) ==
    LET s1 == IF ~s.game_over /\ is_key_pressed(in, "Enter")
                THEN pause([s EXCEPT !.paused = ~@])
                ELSE s
    IN  IF s1.paused \/ ~s1.started \/ s1.game_over THEN s1
        ELSE IF s1.line_clear_timer > 0
          THEN LET s2 == [s1 EXCEPT !.line_clear_timer = F32Sub(@, in.dt)]
               IN  IF s2.line_clear_timer <= 0 THEN clear_lines_delayed(s2, in)
                   ELSE full_pipeline(s2, in)
        ELSE full_pipeline(s1, in)

\* a tick whose pause key works after game over too
update_pause_any(s, in) ==
    LET s1 == IF is_key_pressed(in, "Enter")
                THEN pause([s EXCEPT !.paused = ~@])
                ELSE s
    IN  IF s1.paused \/ ~s1.started \/ s1.game_over THEN s1
        ELSE IF s1.line_clear_timer > 0
          THEN LET s2 == [s1 EXCEPT !.line_clear_timer = F32Sub(@, in.dt)]
               IN  IF s2.line_clear_timer <= 0 THEN clear_lines_delayed(s2, in) ELSE s2
        ELSE full_pipeline(s1, in)

\* lines 737-787
update(s, in) ==
    LET s1 == IF ~s.game_over /\ is_key_pressed(in, "Enter")
                THEN pause([s EXCEPT !.paused = ~@])
                ELSE s
    IN  IF s1.paused \/ ~s1.started \/ s1.game_over THEN s1
        ELSE IF s1.line_clear_timer > 0
          THEN LET s2 == [s1 EXCEPT !.line_clear_timer = F32Sub(@, in.dt)]
               IN  IF s2.line_clear_timer <= 0 THEN clear_lines_delayed(s2, in) ELSE s2
        ELSE full_pipeline(s1, in)

\* draw, lines 789-801: the only state it touches is the music manager
draw(s) == IF ~s.started THEN reset(s) ELSE s

\* one iteration of the loop of main, lines 1057-1064
frame(s, in) ==
    Then([s EXCEPT !.log = <<>>, !.draws = 0], LAMBDA s0 :
        Then(IF is_key_pressed(in, "Space") /\ ~s0.started THEN start_game(s0, in) ELSE s0,
             LAMBDA s1 :
                 Then(LogEv("update", s1, update(s1, in)), LAMBDA s2 :
                     IF s2.panicked THEN s2 ELSE draw(s2))))

-----------------------------------------------------------------------------
(* Observation of the auto-repeat of a horizontal key.  active: the key has *)
(* been down in every frame since a press whose move was made; since: the   *)
(* frame times process_input has counted since the last move by the key;    *)
(* repeats: the repeat moves made since the press; last, moved, free,       *)
(* counted, due: what the last frame's branch of the key did, whether the   *)
(* cell beside the piece was free, the frame times counted up to and        *)
(* including that frame, and the delay that had to pass.  The piece whose   *)
(* neighbour cell is meant is the piece as it stands when the tick's inputs *)
(* are read (the pre-state of the first branch, "left").                    *)
NoRepeat ==
    [active |-> FALSE, since |-> <<>>, repeats |-> 0, last |-> "none",
     moved |-> FALSE, free |-> FALSE, counted |-> <<>>, due |-> 0]

\* what is left of the delay d once the frame times of ticks have been counted off it, one
\* f32 subtraction per frame; the delay has passed when nothing is left
RECURSIVE Remaining(_, _)
Remaining(d, ticks) ==
    IF ticks = <<>> THEN d ELSE Remaining(F32Sub(d, Head(ticks)), Tail(ticks))

KeyEvents(r, op) == {i \in 1..Len(r.log) : r.log[i].op = op}

AutoRepeat(h, r, in, key, op, dx) ==
    IF KeyEvents(r, op) = {}
      THEN IF key \in in.down /\ key \notin in.pressed
             THEN [h EXCEPT !.last = "none", !.moved = FALSE]
             ELSE NoRepeat
      ELSE LET e == r.log[CHOOSE i \in KeyEvents(r, op) : TRUE]
               p0 == Unwrap(e.pre.tetromino)
               p1 == Unwrap(e.post.tetromino)
               movedL == p1.pos[1] = p0.pos[1] + dx
               c0 == Unwrap(r.log[CHOOSE i \in KeyEvents(r, "left") : TRUE].pre.tetromino)
               freeL == ~check_collision(e.pre.board, c0.shape, <<c0.pos[1] + dx, c0.pos[2]>>)
           IN  IF key \in in.pressed
                 THEN [active |-> movedL, since |-> <<>>, repeats |-> 0, last |-> "press",
                       moved |-> movedL, free |-> freeL, counted |-> <<>>, due |-> 0]
               ELSE IF key \in in.down /\ h.active
                 THEN [active |-> TRUE,
                       since |-> IF movedL THEN <<>> ELSE Append(h.since, in.dt),
                       repeats |-> IF movedL THEN h.repeats + 1 ELSE h.repeats,
                       last |-> "hold", moved |-> movedL, free |-> freeL,
                       counted |-> Append(h.since, in.dt),
                       due |-> IF h.repeats = 0 THEN INITIAL_HORIZONTAL_DELAY
                                                ELSE HORIZONTAL_REPEAT_DELAY]
               ELSE NoRepeat

-----------------------------------------------------------------------------
(* Frames *)
Keys == {"Left", "Right", "Up", "Down", "Z", "X", "C", "M", "N", "Enter", "Space"}

\* get_frame_time: the f32 nearest to n/300 second, n from 3
FrameTime(n) == F32Div(n, 300)

\* an input snapshot: frame time (n/300 second), keys pressed this frame, keys down,
\* generator values
In(n, pressed, down, rnd) ==
    [dt |-> FrameTime(n), pressed |-> pressed, down |-> down, rnd |-> rnd]

\* the state of the program and of its observers as one record
Here ==
    [board |-> board, tetromino |-> tetromino, next_tetromino |-> next_tetromino,
     hold_tetromino |-> hold_tetromino, hold_used |-> hold_used, started |-> started,
     paused |-> paused, in_panic |-> in_panic, game_over |-> game_over,
     lines_cleared |-> lines_cleared, score |-> score, left_timer |-> left_timer,
     right_timer |-> right_timer, fall_timer |-> fall_timer,
     line_clear_timer |-> line_clear_timer, clearing_lines |-> clearing_lines,
     active_squares |-> active_squares, next_piece_id |-> next_piece_id,
     mus_mgr |-> mus_mgr, piece_statistics |-> piece_statistics,
     panicked |-> panicked, overflow_checks |-> TRUE, draws |-> 0, log |-> log]

\* the builds a frame can tell apart: with integer overflow checks (the debug profile) or
\* without (the release profile); they differ only where mus_track - 1 overflows
Profiles == IF mus_mgr.mus_track = 0 THEN BOOLEAN ELSE {TRUE}

\* Observation of a pending line clear.  pending: a lock has left rows pending and they
\* have not been removed yet; ticks: the frame times of the ticks that have run (game
\* started, not over, not paused) since that lock, the last frame included; last: what the
\* last frame was to the pending clear
NoClear == [pending |-> FALSE, ticks |-> <<>>, last |-> "none"]

ClearWatch(h, r, in) ==
    LET filled == {i \in 1..Len(r.log) :
                      r.log[i].op = "lock" /\ full_rows(r.log[i].post.board) /= <<>>}
        u == r.log[CHOOSE i \in 1..Len(r.log) : r.log[i].op = "update"]
        ran == u.pre.started /\ ~u.pre.game_over /\ ~r.paused
        collapsed == \E i \in 1..Len(r.log) : r.log[i].op = "collapse"
    IN  IF filled /= {} THEN [pending |-> TRUE, ticks |-> <<>>, last |-> "lock"]
        ELSE IF h.pending /\ ran
          THEN [pending |-> ~collapsed, ticks |-> Append(h.ticks, in.dt),
                last |-> IF collapsed THEN "collapse" ELSE "count"]
        ELSE IF h.pending THEN [h EXCEPT !.last = "paused"]
        ELSE IF collapsed THEN [NoClear EXCEPT !.last = "stray"]
        ELSE NoClear

\* Observation of the bonus squares.  live: one entry for every square registered in this
\* game that has not had its 11th phase expiry: its origin, n, the phase expiries it has
\* had, and t, what is left of its 0.3 phase once the frame times of the full-pipeline ticks
\* (game started, not over, not paused, no clear pending) since its registration or last
\* expiry have been counted off; a phase expires when nothing is left, and gold, whether all cells of its window were of one kind when it was
\* registered.  done: the origins of the squares whose 11th phase expired in the last
\* frame; golds, silvers: the squares of each class whose 11th phase has expired in this
\* game
NoBlink == [live |-> {}, done |-> {}, golds |-> 0, silvers |-> 0]

BlinkWatch(h, r, in) ==
    LET restarted == \E i \in 1..Len(r.log) : r.log[i].op = "start_game"
        runs == {i \in 1..Len(r.log) : r.log[i].op = "check_for_4x4_squares"}
        fresh(e) == {e.post.active_squares[k] :
                        k \in (Len(e.pre.active_squares) + 1)..Len(e.post.active_squares)}
        one_kind(b, q) ==
            Cardinality({Unwrap(b[q.y + dy][q.x + dx])[2] : dx \in 0..3, dy \in 0..3}) = 1
        added == UNION {{[x |-> q.x, y |-> q.y, n |-> 0, t |-> SQUARE_PHASE,
                          gold |-> one_kind(r.log[i].pre.board, q)] : q \in fresh(r.log[i])} :
                           i \in runs}
        u == r.log[CHOOSE i \in 1..Len(r.log) : r.log[i].op = "update"]
        full == /\ u.pre.started /\ ~u.pre.game_over /\ ~r.paused
                /\ u.pre.line_clear_timer <= 0
        base == (IF restarted THEN {} ELSE h.live) \cup added
        step(w) == IF F32Sub(w.t, in.dt) <= 0 THEN [w EXCEPT !.n = @ + 1, !.t = SQUARE_PHASE]
                                              ELSE [w EXCEPT !.t = F32Sub(@, in.dt)]
        moved == IF full THEN {step(w) : w \in base} ELSE base
        ended == {w \in moved : w.n = 11}
    IN  [live |-> moved \ ended,
         done |-> {<<w.x, w.y>> : w \in ended},
         golds |-> (IF restarted THEN 0 ELSE h.golds) + Cardinality({w \in ended : w.gold}),
         silvers |-> (IF restarted THEN 0 ELSE h.silvers) + Cardinality({w \in ended : ~w.gold})]

\* a run of the main loop: the state, the keys down and the observations
Run0 ==
    [gs |-> NewGameState, keys |-> {}, h |-> NoRepeat, hr |-> NoRepeat, hc |-> NoClear,
     hb |-> NoBlink]

RunFrame(run, in) ==
    Then(frame(run.gs, in), LAMBDA r :
        [gs |-> r, keys |-> in.down,
         h |-> AutoRepeat(run.h, r, in, "Left", "left", -1),
         hr |-> AutoRepeat(run.hr, r, in, "Right", "right", 1),
         hc |-> ClearWatch(run.hc, r, in),
         hb |-> BlinkWatch(run.hb, r, in)])

RECURSIVE RunScript(_, _, _)
RunScript(run, script, i) ==
    IF i > Len(script) THEN run
    ELSE Then(RunFrame(run, script[i]), LAMBDA r :
             IF r.gs.panicked THEN r ELSE RunScript(r, script, i + 1))

Play(script) == RunScript(Run0, script, 1)

\* the run continued by a further script
PlayOn(run, script) == RunScript(run, script, 1)

Becomes(run) ==
    /\ board = run.gs.board
    /\ tetromino = run.gs.tetromino
    /\ next_tetromino = run.gs.next_tetromino
    /\ hold_tetromino = run.gs.hold_tetromino
    /\ hold_used = run.gs.hold_used
    /\ started = run.gs.started
    /\ paused = run.gs.paused
    /\ in_panic = run.gs.in_panic
    /\ game_over = run.gs.game_over
    /\ lines_cleared = run.gs.lines_cleared
    /\ score = run.gs.score
    /\ left_timer = run.gs.left_timer
    /\ right_timer = run.gs.right_timer
    /\ fall_timer = run.gs.fall_timer
    /\ line_clear_timer = run.gs.line_clear_timer
    /\ clearing_lines = run.gs.clearing_lines
    /\ active_squares = run.gs.active_squares
    /\ next_piece_id = run.gs.next_piece_id
    /\ mus_mgr = run.gs.mus_mgr
    /\ piece_statistics = run.gs.piece_statistics
    /\ panicked = run.gs.panicked
    /\ log = run.gs.log
    /\ keys_down = run.keys
    /\ h_left = run.h
    /\ h_right = run.hr
    /\ h_clear = run.hc
    /\ h_blink = run.hb

MaxFrames == 4

\* a key is down without being pressed only if it was down in the previous frame
Continues(in) ==
    /\ in.pressed \subseteq in.down
    /\ (in.down \ in.pressed) \subseteq keys_down

\* the gravity accumulator after the frame is below 2 seconds, the durations written here
InRange(in) == fall_timer <= 2147483519 - in.dt

\* one iteration of the main loop (main.rs:1053-1064) on the input snapshot in; count is
\* the frame counter after it
Iterate(in, count) ==
    /\ ~panicked
    /\ Continues(in)
    /\ InRange(in)
    /\ \E run \in {RunFrame([gs |-> [Here EXCEPT !.overflow_checks = c], keys |-> keys_down,
                                h |-> h_left, hr |-> h_right, hc |-> h_clear,
                                hb |-> h_blink], in) : c \in Profiles} :
           /\ board' = run.gs.board
           /\ tetromino' = run.gs.tetromino
           /\ next_tetromino' = run.gs.next_tetromino
           /\ hold_tetromino' = run.gs.hold_tetromino
           /\ hold_used' = run.gs.hold_used
           /\ started' = run.gs.started
           /\ paused' = run.gs.paused
           /\ in_panic' = run.gs.in_panic
           /\ game_over' = run.gs.game_over
           /\ lines_cleared' = run.gs.lines_cleared
           /\ score' = run.gs.score
           /\ left_timer' = run.gs.left_timer
           /\ right_timer' = run.gs.right_timer
           /\ fall_timer' = run.gs.fall_timer
           /\ line_clear_timer' = run.gs.line_clear_timer
           /\ clearing_lines' = run.gs.clearing_lines
           /\ active_squares' = run.gs.active_squares
           /\ next_piece_id' = run.gs.next_piece_id
           /\ mus_mgr' = run.gs.mus_mgr
           /\ piece_statistics' = run.gs.piece_statistics
           /\ panicked' = run.gs.panicked
           /\ log' = run.gs.log
           /\ keys_down' = run.keys
           /\ h_left' = run.h
           /\ h_right' = run.hr
           /\ h_clear' = run.hc
           /\ h_blink' = run.hb
           /\ frames' = count
           /\ probe' = probe

Frame(in) == frames < MaxFrames /\ Iterate(in, frames + 1)

\* a direct call of the public, read-only check_collision on the current board
Probe(shape, pos) ==
    /\ probe = None
    /\ probe' = Some([shape |-> shape, pos |-> pos, result |-> check_collision(board, shape, pos)])
    /\ UNCHANGED <<board, tetromino, next_tetromino, hold_tetromino, hold_used,
                   started, paused, in_panic, game_over, lines_cleared, score,
                   left_timer, right_timer, fall_timer, line_clear_timer, clearing_lines,
                   active_squares, next_piece_id, mus_mgr, piece_statistics,
                   panicked, keys_down, frames, log, h_left, h_right, h_clear, h_blink>>

-----------------------------------------------------------------------------
(* Scripts: input sequences that play the game from GameState::new to the  *)
(* positions the properties below are about.                               *)
Rep(n, in) == [i \in 1..n |-> in]

NoKeys == {}

\* Space starts a game whose first piece is a and whose next piece is b
Begin(a, b) == <<In(3, {"Space"}, {"Space"}, <<a, b>>)>>

\* the active piece is dropped where it is; nxt is the piece the generator yields next
Drop(nxt) == <<In(3, {"Up"}, {"Up"}, <<nxt>>)>>

\* n frames without keys, each dt long
Idle(n, dt) == Rep(n, In(dt, NoKeys, NoKeys, <<"I">>))

\* n presses of key k, each followed by a frame with the key released
Tap(k, n) ==
    [i \in 1..(2 * n) |->
        IF i % 2 = 1 THEN In(3, {k}, {k}, <<"I">>) ELSE In(3, NoKeys, NoKeys, <<"I">>)]

\* n rows down by gravity: frames longer than the fall interval, one row each
Fall(n) == Idle(n, 107)

\* the active piece falls rows rows, turns by the rotation keys in turns, goes n columns
\* to the side of key k, and is dropped
Place(rows, turns, k, n, nxt) == Fall(rows) \o Tap(turns, 1) \o Tap(k, n) \o Drop(nxt)

\* the same without a rotation
Put(k, n, nxt) == Tap(k, n) \o Drop(nxt)

\* a T lies flat at (1,17) beside an I locked in row 19, columns 3..6
BesideRun == Play(Begin("I", "T") \o Drop("O") \o Tap("Left", 2) \o Fall(17))

\* a fresh game: the first piece a at its spawn position on an empty board, b next
FreshRun(a, b) == Play(Begin(a, b))

\* a vertical I above column 9 is about to fill rows 16 and 18, not rows 17 and 19
TwoRowsStart ==
    Play(Begin("O", "O") \o Put("Left", 1, "O") \o Put("Right", 1, "I") \o Put("Right", 3, "I")
           \o Place(1, "Z", "Right", 4, "O") \o Put("Left", 1, "O"))

TwoRowsMiddle ==
    PlayOn(TwoRowsStart,
           Put("Right", 3, "T") \o Put("Right", 1, "I") \o Place(0, "X", "Left", 3, "I"))

TwoRowsRun ==
    PlayOn(TwoRowsMiddle, Put("Left", 3, "L") \o Fall(1) \o Tap("Z", 1) \o Tap("Right", 5))

\* an O above columns 8..9 is about to fill row 19 under two I
OneRowRun == Play(Begin("I", "I") \o Put("Left", 3, "O") \o Put("Right", 1, "T") \o Tap("Right", 5))

\* three I lie in columns 3..6, rows 17..19; a fourth I is at the spawn position
GoldRun == Play(Begin("I", "I") \o Drop("I") \o Drop("I") \o Drop("I"))

\* two O and an I fill columns 3..6, rows 17..19; an I is at the spawn position
SilverRun == Play(Begin("O", "O") \o Drop("I") \o Put("Right", 2, "I") \o Drop("I"))

\* columns 3..6, rows 16..19 lack two cells that an O reaching into column 7 will fill
StraddleRun ==
    Play(Begin("I", "I") \o Drop("O") \o Drop("I") \o Drop("O")
           \o Place(1, "Z", "Right", 1, "T") \o Tap("Right", 3))

\* the gold square blinks for the last time
GoldEndRun == PlayOn(GoldRun, Drop("T") \o Idle(10, 107))

\* the silver square blinks for the last time
SilverEndRun == PlayOn(SilverRun, Drop("T") \o Idle(10, 107))

\* nine O fill columns 3..4 from row 19 to row 2; the tenth O is at the spawn position
TowerRun == Play(Begin("O", "O") \o Rep(9, Drop("O")[1]))

\* five I fill column 6 from row 19 to row 0; an O is active and an I is next
HoldOverStart ==
    Play(Begin("I", "I") \o Place(1, "Z", "Right", 2, "I") \o Place(1, "Z", "Right", 2, "I")
           \o Place(1, "Z", "Right", 2, "I"))

HoldOverRun ==
    PlayOn(HoldOverStart, Place(1, "Z", "Right", 2, "O") \o Place(1, "Z", "Right", 2, "I"))

\* column 5 is filled from row 19 to row 0; an O above columns 0..1 is about to fill row 19
ClearOverStart ==
    Play(Begin("I", "I") \o Put("Right", 3, "I") \o Put("Left", 1, "I")
           \o Place(1, "Z", "Right", 1, "I") \o Place(1, "Z", "Right", 1, "I"))

ClearOverRun ==
    PlayOn(ClearOverStart,
           Place(1, "Z", "Right", 1, "T") \o Place(1, "Z", "Right", 1, "O")
             \o Place(0, "Z", "Right", 1, "T") \o Tap("Left", 3))

\* an I is held, five I fill column 6 from row 19 to row 0, and an O is at the spawn position
HoldRejectStart ==
    Play(Begin("I", "I") \o Tap("C", 1) \o Place(1, "Z", "Right", 2, "I")
           \o Place(1, "Z", "Right", 2, "I") \o Place(1, "Z", "Right", 2, "I"))

HoldRejectRun ==
    PlayOn(HoldRejectStart, Place(1, "Z", "Right", 2, "O") \o Place(1, "Z", "Right", 2, "I"))

\* the gold square of four I in columns 3..6, rows 16..19 has turned into bonus cells; an I
\* in column 0 and an O in columns 1..2 lie beside it, and a J above columns 7..9 is about
\* to fill row 19
BonusRowStart == PlayOn(GoldRun, Drop("O") \o Idle(11, 107))

BonusRowRun ==
    PlayOn(BonusRowStart, Place(0, "Z", "Left", 4, "J") \o Put("Left", 2, "T") \o Tap("Right", 4))

\* the same position reached while the square still blinks
BlinkRowRun ==
    PlayOn(GoldRun, Drop("O") \o Place(1, "Z", "Left", 4, "J") \o Put("Left", 2, "T")
                      \o Tap("Right", 4))

\* the same with the square's tenth phase expired: one more and it will be converted
BlinkRowEndRun == PlayOn(BlinkRowRun, Idle(9, 107))

\* three I lie in columns 3..6, rows 17..19; two L and a J fill columns 0..2 in rows 15
\* and 16
FullRowStart ==
    Play(Begin("I", "I") \o Drop("I") \o Drop("L") \o Drop("L") \o Put("Left", 3, "J")
           \o Put("Left", 3, "L") \o Put("Left", 3, "O"))

\* an upright L stands in column 8 with its foot in (9,19), and an O lies on it in columns
\* 7..8, rows 15..16, above the empty cells of column 7
FullRowMiddle ==
    PlayOn(FullRowStart, Place(1, "X", "Right", 5, "I") \o Put("Right", 4, "I"))

\* the fourth I has completed the gold square at (3,16), ten of its phases have expired,
\* and an upright I above column 9 is about to fill row 16, the top row of the square
FullRowRun ==
    PlayOn(FullRowMiddle,
           Drop("T") \o Fall(1) \o Tap("Z", 1) \o Tap("Right", 5) \o Idle(9, 107))

\* an O has fallen two rows on the empty board
OFallenRun == Play(Begin("O", "T") \o Fall(2))

\* columns 0..2 and 7..9 are filled in rows 16..19 by pieces that reach above row 16 (an I
\* in column 0 and in column 9, an O under two I in columns 1..2 and 7..8); three I stand in
\* columns 3..5, rows 16..19, and a fourth I stands upright above column 6: its lock will
\* complete the window at (3,16) and fill rows 16..19 at once
SquareSidesStart ==
    Play(Begin("I", "O") \o Place(1, "Z", "Left", 4, "I") \o Put("Left", 2, "I")
           \o Place(1, "Z", "Left", 3, "I"))

SquareSidesMiddle ==
    PlayOn(SquareSidesStart, Place(1, "Z", "Left", 2, "O") \o Place(1, "Z", "Right", 5, "I"))

SquareSidesRun ==
    PlayOn(SquareSidesMiddle, Put("Right", 4, "I") \o Place(1, "Z", "Right", 3, "I"))

SquareRowsStart ==
    PlayOn(SquareSidesRun, Place(1, "Z", "Right", 4, "I") \o Place(1, "Z", "Left", 1, "I"))

SquareRowsMiddle ==
    PlayOn(SquareRowsStart, Place(1, "Z", "Left", 0, "I") \o Place(1, "Z", "Right", 1, "T"))

SquareRowsRun == PlayOn(SquareRowsMiddle, Fall(1) \o Tap("Z", 1) \o Tap("Right", 2))

\* five O fill columns 3..4 from row 19 to row 10; the sixth O is at the spawn position
PanicOnRun ==
    Play(Begin("O", "O") \o Drop("O") \o Drop("O") \o Drop("O") \o Drop("O") \o Drop("J"))

\* six O reach row 8; a J and an I fill row 19 up to column 8, and an upright I above
\* column 9 is about to fill it
PanicOffRun ==
    PlayOn(PanicOnRun,
           Drop("I") \o Put("Left", 3, "I") \o Put("Right", 2, "T")
             \o Fall(1) \o Tap("Z", 1) \o Tap("Right", 5))

-----------------------------------------------------------------------------
(* Specifications.  Each starts from positions the game reaches by the     *)
(* scripts above and runs MaxFrames frames on a set of input snapshots.    *)
StartAt(runs) == /\ \E run \in runs : Becomes(run)
                 /\ frames = 0
                 /\ probe = None

\* every shape a piece can take: the seven spawn shapes and their rotations
Turned(t, n) ==
    LET s0 == TETROMINO_SHAPES[TypeIndex(t) + 1]
        s1 == rotate_shape(s0, t, TRUE)
        s2 == rotate_shape(s1, t, TRUE)
        s3 == rotate_shape(s2, t, TRUE)
    IN  CASE n = 0 -> s0 [] n = 1 -> s1 [] n = 2 -> s2 [] n = 3 -> s3

AllShapes == {Turned(t, n) : t \in Movable, n \in 0..3}

\* how far outside the grid the probed positions reach
MaxProbe == 2

ProbePositions ==
    {<<x, y>> : x \in (0 - MaxProbe)..(GRID_WIDTH + MaxProbe - 1),
                y \in (0 - MaxProbe)..(GRID_HEIGHT + MaxProbe - 1)}

CollisionInit == StartAt({TwoRowsRun, TowerRun})

CollisionNext == \E shape \in AllShapes : \E pos \in ProbePositions : Probe(shape, pos)

SpecCollision == CollisionInit /\ [][CollisionNext]_vars

\* input snapshots: a key pressed in a short frame, a frame longer than the fall interval
Key(k, nxt) == In(3, {k}, {k}, <<nxt>>)

Wait(dt, nxt) == In(dt, NoKeys, NoKeys, <<nxt>>)

Chord(dt, ks, nxt) == In(dt, ks, ks, <<nxt>>)

LockInputs ==
    {Wait(107, "O"), Key("Up", "O"), Key("Left", "O"), Key("Right", "O"), Key("Z", "O"),
     Chord(107, {"Right", "Z"}, "O")}

LockInit == StartAt({BesideRun})

LockNext == \E in \in LockInputs : Frame(in)

SpecLock == LockInit /\ [][LockNext]_vars

ClearInputs ==
    {Key("Up", "T"), Chord(107, {"Up"}, "T"), Wait(107, "T"), Wait(23, "T"), Key("Left", "T")}

ClearInit == StartAt({TwoRowsRun, OneRowRun})

ClearNext == \E in \in ClearInputs : Frame(in)

SpecClear == ClearInit /\ [][ClearNext]_vars

SquareInputs ==
    {Key("Up", "T"), Wait(107, "T"), Wait(23, "T"), Key("Left", "T"), Key("Right", "T")}

SquareInit == StartAt({GoldRun, SilverRun, StraddleRun, GoldEndRun, SilverEndRun})

SquareNext == \E in \in SquareInputs : Frame(in)

SpecSquare == SquareInit /\ [][SquareNext]_vars

HoldInputs ==
    {Key("C", "O"), Chord(107, {"C"}, "O"), Key("Z", "O"), Chord(3, {"Z", "C"}, "O"),
     Wait(107, "O"), Key("Up", "O")}

HoldInit == StartAt({FreshRun("T", "L"), HoldOverRun})

HoldNext == \E in \in HoldInputs : Frame(in)

SpecHold == HoldInit /\ [][HoldNext]_vars

\* a frame dt long with key k still down
Held(dt, k) == In(dt, NoKeys, {k}, <<"O">>)

\* held frames of 0.077 and 0.237 s, and of 0.05 and 0.1 s: 0.05, 0.05 and 0.1 add up to the
\* initial delay, and the f32 countdown keeps a remainder
RepeatInputs ==
    {Key("Left", "O"), Held(23, "Left"), Held(71, "Left"), Held(15, "Left"), Held(30, "Left"),
     Key("Right", "O"), Held(23, "Right"), Held(71, "Right"),
     Chord(3, {"Left", "Right"}, "O"), Wait(23, "O")}

RepeatInit == StartAt({FreshRun("T", "O"), BesideRun, OneRowRun})

RepeatNext == \E in \in RepeatInputs : Frame(in)

SpecRepeat == RepeatInit /\ [][RepeatNext]_vars

DropInputs ==
    {Key("Up", "O"), Chord(3, {"Up", "Left"}, "O"), Chord(107, {"Up", "Right", "Down"}, "O"),
     Chord(3, {"Up", "Z", "C"}, "O"), Key("Left", "O"), Key("Z", "O"), Wait(107, "O")}

DropInit == StartAt({FreshRun("I", "T"), BesideRun, TowerRun})

DropNext == \E in \in DropInputs : Frame(in)

SpecDrop == DropInit /\ [][DropNext]_vars

OverInputs ==
    {Key("Up", "O"), Chord(107, {"Up"}, "O"), Key("C", "O"), Wait(107, "O"), Wait(23, "O"),
     In(3, {"Space"}, {"Space"}, <<"O", "I">>), Key("Enter", "O")}

OverInit == StartAt({TowerRun, HoldOverRun, ClearOverRun, GoldRun})

OverNext == \E in \in OverInputs : Frame(in)

SpecOver == OverInit /\ [][OverNext]_vars

SwapInit == StartAt({FreshRun("T", "L"), HoldRejectRun})

SwapNext == \E in \in HoldInputs : Frame(in)

SpecSwap == SwapInit /\ [][SwapNext]_vars

\* frames of 0.077, 0.193 and 0.357 s: 0.077 and 0.193 add up to the delay of a clear, and
\* the f32 countdown keeps a remainder
PendingInputs ==
    {Key("Up", "T"), Wait(23, "T"), Wait(58, "T"), Wait(107, "T"), Key("Enter", "T"),
     Chord(23, {"Left", "Z", "C", "Down"}, "T"), Chord(23, {"Up", "Right", "X"}, "T")}

PendingInit == StartAt({BonusRowRun, BlinkRowRun, TwoRowsRun})

PendingNext == \E in \in PendingInputs : Frame(in)

SpecPending == PendingInit /\ [][PendingNext]_vars

TurnInputs ==
    {Key("Z", "O"), Key("X", "O"), Chord(3, {"Z", "X"}, "O"), Chord(3, {"Right", "Z"}, "O"),
     Chord(3, {"Left", "X"}, "O"), Wait(107, "O")}

TurnInit == StartAt({OFallenRun, BesideRun, FreshRun("I", "T")})

TurnNext == \E in \in TurnInputs : Frame(in)

SpecTurn == TurnInit /\ [][TurnNext]_vars

DetectInputs ==
    {Key("Up", "T"), Wait(107, "T"), Wait(23, "T"), Key("Left", "T"), Chord(23, {"Down"}, "T")}

DetectInit == StartAt({SquareRowsRun, GoldRun, StraddleRun})

DetectNext == \E in \in DetectInputs : Frame(in)

SpecDetect == DetectInit /\ [][DetectNext]_vars

ScoreInputs ==
    {Key("Up", "T"), Wait(107, "T"), Wait(23, "T"), Key("Left", "T"), Chord(23, {"Down"}, "T"),
     Key("Right", "T")}

ScoreInit == StartAt({GoldEndRun, SilverEndRun, BonusRowRun, BlinkRowRun})

ScoreNext == \E in \in ScoreInputs : Frame(in)

SpecScore == ScoreInit /\ [][ScoreNext]_vars

\* frames shorter than the soft-drop interval, between the two intervals, longer than one
\* fall interval and longer than two; 0.077 and 0.257 s add up to the fall interval, and the
\* f32 sum stays below it
GravityInputs ==
    {Wait(23, "T"), Wait(77, "T"), Wait(107, "T"), Wait(215, "T"), Key("Down", "T"),
     Held(3, "Down"), Held(23, "Down"), Held(71, "Down"), Key("Left", "T")}

GravityInit == StartAt({FreshRun("I", "T"), BesideRun})

GravityNext == \E in \in GravityInputs : Frame(in)

SpecGravity == GravityInit /\ [][GravityNext]_vars

PanicInputs ==
    {Key("Up", "T"), Wait(107, "T"), Wait(23, "T"), Key("Enter", "T"), Key("N", "T"),
     Key("Left", "T"), In(3, {"Space"}, {"Space"}, <<"O", "I">>)}

PanicInit == StartAt({PanicOnRun, PanicOffRun, TowerRun})

PanicNext == \E in \in PanicInputs : Frame(in)

SpecPanic == PanicInit /\ [][PanicNext]_vars

ConvertInputs ==
    {Key("Up", "T"), Wait(107, "T"), Wait(23, "T"), Key("Left", "T"), Key("Enter", "T")}

ConvertInit == StartAt({BlinkRowEndRun, FullRowRun, GoldEndRun, SilverEndRun})

ConvertNext == \E in \in ConvertInputs : Frame(in)

SpecConvert == ConvertInit /\ [][ConvertNext]_vars

\* the program from GameState::new on: the start screen, before any game
MenuInputs ==
    {Key("Enter", "T"), In(3, {"Space"}, {"Space"}, <<"O", "I">>), Wait(107, "T"),
     Key("Up", "T"), Key("N", "T")}

MenuInit == StartAt({Run0, FreshRun("O", "T")})

MenuNext == \E in \in MenuInputs : Frame(in)

SpecMenu == MenuInit /\ [][MenuNext]_vars

\* The life of one piece, without a bound on the number of frames: the main loop goes on as
\* long as the piece that was active at the start has not been locked.  The frames are short
\* (0.01 s, 0.077 s) or long (0.357 s), with the down key pressed, held or released.  The
\* frame counter is kept modulo 2, so that every frame is a step and the states are finite.
LiveInputs == {Key("Down", "T"), Held(3, "Down"), Held(23, "Down"), Wait(107, "T")}

LiveInit == StartAt({OFallenRun, FreshRun("I", "T")})

LiveNext ==
    /\ \A i \in 1..Len(log) : log[i].op /= "lock"
    /\ \E in \in LiveInputs : Iterate(in, (frames + 1) % 2)

\* the loop never stops calling update: a frame that can be run is run
SpecLive == LiveInit /\ [][LiveNext]_vars /\ WF_vars(LiveNext)

-----------------------------------------------------------------------------
(* Properties *)
InGrid(x, y) == x >= 0 /\ x < GRID_WIDTH /\ y >= 0 /\ y < GRID_HEIGHT

\* the cells a piece of the given shape covers at pos, as <<x, y>>
CellsOf(shape, pos) == {<<pos[1] + shape[i][1], pos[2] + shape[i][2]>> : i \in 1..4}

Occupied(b, c) == InGrid(c[1], c[2]) /\ IsSome(b[c[2]][c[1]])

\* C1: check_collision(shape, pos) is true exactly if one of the four cells pos+offset is
\* outside columns 0..9 or rows 0..19 (rows above the top included) or on an occupied cell
CollisionSound ==
    IsSome(probe) =>
        LET p == Unwrap(probe)
        IN  p.result <=> \E c \in CellsOf(p.shape, p.pos) :
                            ~InGrid(c[1], c[2]) \/ Occupied(board, c)

\* C1 witness: the call answered true for a piece wholly inside the grid, and the board has
\* free cells
CollisionSeen ==
    /\ IsSome(probe)
    /\ Unwrap(probe).result
    /\ \A c \in CellsOf(Unwrap(probe).shape, Unwrap(probe).pos) : InGrid(c[1], c[2])
    /\ Cardinality({c \in CellsOf(Unwrap(probe).shape, Unwrap(probe).pos) : Occupied(board, c)}) = 1

\* the logged calls of the last frame
Events(op) == {i \in 1..Len(log) : log[i].op = op}

AllCells == {<<x, y>> : x \in Cols, y \in Rows}

\* the piece ids on a board
IdsOn(b) == {Unwrap(b[c[2]][c[1]])[3] : c \in {d \in AllCells : IsSome(b[d[2]][d[1]])}}

\* the lines 390-401 of one lock wrote exactly the cells of the piece, each free before
LockExactAt(e) ==
    LET t == Unwrap(e.pre.tetromino)
        C == CellsOf(t.shape, t.pos)
        id == e.pre.next_piece_id
    IN  /\ id \notin IdsOn(e.pre.board)
        /\ \A c \in C : /\ InGrid(c[1], c[2])
                        /\ ~Occupied(e.pre.board, c)
                        /\ e.post.board[c[2]][c[1]] = Some(<<t.color, t.t_type, id>>)
        /\ \A c \in AllCells \ C : e.post.board[c[2]][c[1]] = e.pre.board[c[2]][c[1]]

\* C2: whenever a piece is locked while occupying cell set C, exactly the cells of C become
\* occupied with its color, kind and one fresh piece id, no other cell changes and no
\* cell occupied before the lock is overwritten
LockExact == \A i \in Events("lock") : LockExactAt(log[i])

\* C2, the part that holds: a lock writes the cells of the piece that are inside the grid
\* with its color, kind and one fresh id, and changes no cell outside the piece
LockWritesPiece ==
    \A i \in Events("lock") :
        LET e == log[i]
            t == Unwrap(e.pre.tetromino)
            C == CellsOf(t.shape, t.pos)
            id == e.pre.next_piece_id
        IN  /\ id \notin IdsOn(e.pre.board)
            /\ e.post.next_piece_id = id + 1
            /\ \A c \in C : InGrid(c[1], c[2]) =>
                               e.post.board[c[2]][c[1]] = Some(<<t.color, t.t_type, id>>)
            /\ \A c \in AllCells \ C : e.post.board[c[2]][c[1]] = e.pre.board[c[2]][c[1]]

\* C2 witness: a lock overwrote a cell that another piece occupied
LockOverwrote ==
    \E i \in Events("lock") :
        \E c \in CellsOf(Unwrap(log[i].pre.tetromino).shape, Unwrap(log[i].pre.tetromino).pos) :
            Occupied(log[i].pre.board, c)

\* the rows of a sequence of row indices, as a set
RowSet(seq) == {seq[i] : i \in 1..Len(seq)}

\* C3: the collapse removes exactly the pending rows, moves every surviving row down by the
\* number of removed rows below it, leaves that many empty rows at the top, and adds that
\* number to lines_cleared
CollapseExact ==
    \A i \in Events("collapse") :
        LET e == log[i]
            R == RowSet(e.pre.clearing_lines)
            n == Cardinality(R)
        IN  /\ \A y \in Rows \ R :
                  e.post.board[y + Cardinality({r \in R : r > y})] = e.pre.board[y]
            /\ \A y \in Rows : y < n => e.post.board[y] = EmptyRow
            /\ e.post.lines_cleared = e.pre.lines_cleared + n
            /\ e.post.clearing_lines = <<>>

\* C3 witness: two rows that are not adjacent went, a row between them survived with its
\* cells, and lines_cleared grew by 2
CollapseSeen ==
    \E i \in Events("collapse") :
        LET e == log[i]
            R == RowSet(e.pre.clearing_lines)
        IN  /\ Cardinality(R) = 2
            /\ \E y \in Rows \ R : /\ \E r \in R : r > y
                                   /\ \E r \in R : r < y
                                   /\ e.pre.board[y] /= EmptyRow
            /\ e.post.lines_cleared = e.pre.lines_cleared + 2
            /\ e.post.board[0] = EmptyRow /\ e.post.board[1] = EmptyRow

\* the cells of the 4x4 window with top-left corner (x, y)
Window(x, y) == {<<cx, cy>> : cx \in x..(x + 3), cy \in y..(y + 3)}

Origins == {<<x, y>> : x \in 0..(GRID_WIDTH - 4), y \in 0..(GRID_HEIGHT - 4)}

CellAt(b, c) == Unwrap(b[c[2]][c[1]])

\* the window is full of cells that are no bonus cells, and no piece in it has a cell outside
Qualifies(b, x, y) ==
    /\ \A c \in Window(x, y) : IsSome(b[c[2]][c[1]]) /\ CellAt(b, c)[2] \notin BonusTypes
    /\ \A c \in Window(x, y) : \A d \in AllCells \ Window(x, y) :
           IsSome(b[d[2]][d[1]]) => CellAt(b, d)[3] /= CellAt(b, c)[3]

Anchors(squares) == {<<squares[i].x, squares[i].y>> : i \in 1..Len(squares)}

\* the effects a detector run added: those behind the ones that were there before
Added(e) ==
    {e.post.active_squares[i] : i \in (Len(e.pre.active_squares) + 1)..Len(e.post.active_squares)}

\* C4: a run of the detector registers an effect at (x,y) exactly if the 16 cells of the
\* window are occupied, none is a bonus cell, no piece of the window has a cell outside it
\* and no effect is anchored at (x,y) yet; it changes nothing else
DetectorExact ==
    \A i \in Events("check_for_4x4_squares") :
        LET e == log[i]
        IN  /\ SubSeq(e.post.active_squares, 1, Len(e.pre.active_squares)) = e.pre.active_squares
            /\ e.post.board = e.pre.board
            /\ \A o \in Origins :
                  (\E sq \in Added(e) : sq.x = o[1] /\ sq.y = o[2])
                      <=> (/\ Qualifies(e.pre.board, o[1], o[2])
                           /\ o \notin Anchors(e.pre.active_squares))
            /\ \A sq \in Added(e) : <<sq.x, sq.y>> \in Origins

\* C4 witness: a detector run registered an effect for a window of four pieces
DetectorSeen ==
    \E i \in Events("check_for_4x4_squares") :
        \E sq \in Added(log[i]) :
            /\ Qualifies(log[i].pre.board, sq.x, sq.y)
            /\ Cardinality({CellAt(log[i].pre.board, c)[3] : c \in Window(sq.x, sq.y)}) = 4

\* the kinds of the pieces in the window
KindsIn(b, x, y) == {CellAt(b, c)[2] : c \in Window(x, y)}

\* the effects a run of update_square_effects turned into bonus cells
Converted(e) ==
    {e.pre.active_squares[i] : i \in
        {j \in 1..Len(e.pre.active_squares) :
            <<e.pre.active_squares[j].x, e.pre.active_squares[j].y>>
                \notin Anchors(e.post.active_squares)}}

Points(sq) == IF sq.is_gold THEN 500 ELSE 200

RECURSIVE SumPoints(_)
SumPoints(S) == IF S = {} THEN 0 ELSE LET sq == CHOOSE q \in S : TRUE
                                      IN  Points(sq) + SumPoints(S \ {sq})

\* C5: a registered square is gold exactly if all pieces in its window are of one kind, and
\* silver otherwise; when it is converted a gold square adds 500 points and a silver one 200
GoldOrSilver ==
    /\ \A i \in Events("check_for_4x4_squares") :
          \A sq \in Added(log[i]) :
              sq.is_gold <=> Cardinality(KindsIn(log[i].pre.board, sq.x, sq.y)) = 1
    /\ \A i \in Events("update_square_effects") :
          log[i].post.score = log[i].pre.score + SumPoints(Converted(log[i]))

\* C5 witness: a square of two kinds of pieces, registered as silver, was converted for 200
SilverSeen ==
    \E i \in Events("update_square_effects") :
        \E sq \in Converted(log[i]) :
            /\ ~sq.is_gold
            /\ Cardinality({sq.original[dy][dx][2] : dx \in 0..3, dy \in 0..3}) = 2
            /\ log[i].post.score = log[i].pre.score + 200

\* the logged calls of a frame's log l
EventsIn(l, op) == {i \in 1..Len(l) : l[i].op = op}

\* the hold request i of log l found the slot empty and the hold free
EmptyHold(l, i) ==
    /\ l[i].op = "hold"
    /\ l[i].pre.hold_tetromino = None
    /\ ~l[i].pre.hold_used

\* an empty-hold swap completed in the frame of log l, and the piece it spawned stayed the
\* active piece to the end of the frame
EmptySwapDone(l) ==
    \E i \in 1..Len(l) :
        /\ EmptyHold(l, i)
        /\ IsSome(l[i].post.tetromino)
        /\ \A j \in EventsIn(l, "lock") \cup EventsIn(l, "spawn") : j < i

\* C6: an empty-hold swap having completed, a further hold request on the piece it spawned
\* has no effect (hold stays unusable until a later successful spawn)
HoldUnusableAfterSwap ==
    [][EmptySwapDone(log) =>
          \A j \in EventsIn(log', "hold") :
              (\A k \in EventsIn(log', "lock") \cup EventsIn(log', "spawn") : k > j)
                  => /\ log'[j].post.tetromino = log'[j].pre.tetromino
                     /\ log'[j].post.hold_tetromino = log'[j].pre.hold_tetromino]_vars

\* C6, the part that holds: an empty-hold swap stores the active piece, kind kept and shape
\* reset to the spawn orientation, and makes the former next piece the active piece as it was
\* created, at the spawn position, unless that position is blocked and the game ends
HoldStores ==
    \A i \in Events("hold") :
        EmptyHold(log, i) =>
            LET e == log[i]
                held == Unwrap(e.post.hold_tetromino)
                was == Unwrap(e.pre.tetromino)
            IN  /\ IsSome(e.post.hold_tetromino)
                /\ held.t_type = was.t_type
                /\ held.shape = TETROMINO_SHAPES[TypeIndex(was.t_type) + 1]
                /\ IF IsSome(e.post.tetromino)
                     THEN /\ e.post.tetromino = e.pre.next_tetromino
                          /\ Unwrap(e.post.tetromino).pos = SpawnPos
                     ELSE e.post.game_over

\* C6 witness: right after an empty-hold swap the hold is usable, and a second request has
\* swapped the held piece back in
HoldSwappedBack ==
    \E j \in Events("hold") :
        /\ IsSome(log[j].pre.hold_tetromino)
        /\ ~log[j].pre.hold_used
        /\ Unwrap(log[j].pre.hold_tetromino).t_type = "T"
        /\ Unwrap(log[j].pre.tetromino).t_type = "L"
        /\ log[j].pre.next_piece_id = 1
        /\ Unwrap(log[j].post.tetromino).t_type = "T"
        /\ Unwrap(log[j].post.hold_tetromino).t_type = "L"

\* what the last frame's branch of a horizontal key did agrees with the delays: a press moves
\* the piece exactly if the cell beside it is free; while the key stays down the piece moves
\* exactly if that cell is free and the frame times counted since the last move by the key
\* have used up the delay, 0.2 after the press and 0.1 after a repeat
RepeatOk(h) ==
    /\ h.last = "press" => (h.moved <=> h.free)
    /\ h.last = "hold" =>
          /\ h.due = (IF h.repeats = 0 \/ (h.moved /\ h.repeats = 1)
                        THEN INITIAL_HORIZONTAL_DELAY ELSE HORIZONTAL_REPEAT_DELAY)
          /\ h.moved <=> (h.free /\ Remaining(h.due, h.counted) <= 0)

\* C7: with the left or the right key held from the tick it is pressed, the piece moves one
\* column in the press tick if the cell beside it is free as the tick begins, next when 0.2
\* of processed tick time have passed since the press, then once per 0.1, each move only if
\* the destination is free, and a blocked move leaves the piece where it is
RepeatTiming == RepeatOk(h_left) /\ RepeatOk(h_right)

\* C7 witness: after the press and the first repeat the key has been down for less than 0.1
\* more and the piece has stayed, and a repeat move has been made before that
RepeatSeen ==
    /\ h_left.last = "hold"
    /\ h_left.repeats = 1
    /\ h_left.free
    /\ ~h_left.moved
    /\ h_left.counted /= <<>>
    /\ Remaining(HORIZONTAL_REPEAT_DELAY, h_left.counted) > 0

\* the rows a piece of shape sh in column x can go down to from row y without a collision
\* on the way
Reach(b, sh, x, y) ==
    {y1 \in y..GRID_HEIGHT :
        \A k \in (y + 1)..y1 : ~check_collision(b, sh, <<x, k>>)}

Lowest(b, sh, x, y) ==
    LET R == Reach(b, sh, x, y)
    IN  CHOOSE y1 \in R : \A y2 \in R : y2 <= y1

\* the lock made by the hard drop logged at i: the last lock before it
LockOf(i) == CHOOSE j \in Events("lock") : j < i /\ \A k \in Events("lock") : k < i => k <= j

\* C8: a hard drop moves the piece straight down, column and shape unchanged, to the lowest
\* position it reaches without collision, locks it there in the same tick, and applies no
\* other input of the tick; an I at (3,0) on an empty board locks in row 19, columns 3..6,
\* no row is cleared and the next piece is spawned
HardDropExact ==
    \A i \in Events("hard_drop") :
        LET e == log[i]
            t == Unwrap(e.pre.tetromino)
            l == log[LockOf(i)]
        IN  /\ \E j \in Events("lock") : j < i
            /\ l.pre.tetromino =
                   Some([t EXCEPT !.pos = <<t.pos[1], Lowest(e.pre.board, t.shape, t.pos[1], t.pos[2])>>])
            /\ l.pre.board = e.pre.board
            /\ \E k \in Events("process_input") : log[k].pre = e.pre /\ log[k].post = e.post
            /\ Events("left") = {} /\ Events("right") = {} /\ Events("hold") = {}
            /\ e.post.left_timer = e.pre.left_timer
            /\ e.post.right_timer = e.pre.right_timer
            /\ e.post.hold_tetromino = e.pre.hold_tetromino
            /\ e.post.mus_mgr = e.pre.mus_mgr
            /\ (e.pre.board = EmptyBoard /\ t = NewTetromino("I")) =>
                  /\ \A c \in AllCells :
                        IsSome(e.post.board[c[2]][c[1]]) <=> (c[2] = 19 /\ c[1] \in 3..6)
                  /\ e.post.clearing_lines = <<>>
                  /\ e.post.tetromino = e.pre.next_tetromino

\* C8 witness: an I at (3,0) on an empty board was hard dropped while Left was pressed too,
\* lies in row 19, columns 3..6, and the next piece is active
HardDropSeen ==
    \E i \in Events("hard_drop") :
        /\ log[i].pre.board = EmptyBoard
        /\ log[i].pre.tetromino = Some(NewTetromino("I"))
        /\ "Left" \in keys_down
        /\ \A x \in 3..6 : IsSome(log[i].post.board[19][x])
        /\ log[i].post.tetromino = log[i].pre.next_tetromino

\* the next piece of state s collides at its spawn position
SpawnBlocked(s) ==
    /\ IsSome(s.next_tetromino)
    /\ check_collision(s.board, Unwrap(s.next_tetromino).shape, Unwrap(s.next_tetromino).pos)

\* the logged calls that try to bring in the next piece: spawn_new_tetromino after a lock or
\* an empty-hold swap, and the test at the end of the collapse
SpawnAttempts == Events("spawn") \cup Events("clear_game_over")

\* C9: game_over becomes true exactly when a spawn attempt finds the next piece colliding
\* at its spawn position, the same step sets started to false, and game_over implies not
\* started in every state
GameOverOnSpawn ==
    /\ game_over => ~started
    /\ \A i \in 1..Len(log) : log[i].post.game_over => ~log[i].post.started
    /\ \A i \in Events("spawn") :
          /\ log[i].post.game_over <=> SpawnBlocked(log[i].pre)
          /\ ~log[i].pre.game_over
    /\ \A i \in Events("collapse") :
          SpawnBlocked(log[i].post) <=>
              (i + 1 \in Events("clear_game_over") /\ log[i + 1].post.game_over)
    /\ \A i \in Events("update") :
          (~log[i].pre.game_over /\ log[i].post.game_over) =>
              \E j \in SpawnAttempts :
                  /\ SpawnBlocked(log[j].pre)
                  /\ ~log[j].pre.game_over
                  /\ log[j].post.game_over /\ ~log[j].post.started
    /\ \A i \in 1..Len(log) :
          (~log[i].pre.game_over /\ log[i].post.game_over) =>
              \E j \in SpawnAttempts : j <= i /\ ~log[j].pre.game_over /\ log[j].post.game_over

\* C9 witness: the collapse of a full row left the spawn position blocked and ended the game
GameOverSeen ==
    /\ game_over
    /\ ~started
    /\ \E i \in Events("clear_game_over") :
          /\ SpawnBlocked(log[i].pre)
          /\ log[i].post.lines_cleared = 1

\* what game over freezes: board, pieces, score, lines_cleared, effects, piece ids, paused
Frozen(s) ==
    <<s.board, s.tetromino, s.next_tetromino, s.hold_tetromino, s.score, s.lines_cleared,
      s.active_squares, s.next_piece_id, s.paused>>

\* C10: from the moment game_over is set nothing further is simulated, not even in the rest
\* of the tick that set it: no call of a tick that starts with game_over set locks a piece,
\* allocates a piece id or changes board, score, effects or the paused flag
GameOverTerminal ==
    \A i \in 1..Len(log) :
        (log[i].pre.game_over /\ log[i].op /= "start_game") =>
            /\ log[i].op /= "lock"
            /\ Frozen(log[i].post) = Frozen(log[i].pre)

\* C10, the part that holds: every tick that begins with game_over set leaves board, pieces,
\* score, lines_cleared, effects and the paused flag as they are
GameOverLaterTicks ==
    \A i \in Events("update") :
        log[i].pre.game_over => Frozen(log[i].post) = Frozen(log[i].pre)

\* C10 witness: in the tick that ended the game the piece was locked a second time, under a
\* new piece id
LockedAfterGameOver ==
    \E i \in Events("lock") :
        /\ log[i].pre.game_over
        /\ log[i].post.next_piece_id = log[i].pre.next_piece_id + 1
        /\ log[i].post.board /= log[i].pre.board

\* C11: every tick that reaches input processing finds an active piece, so the unwrap of the
\* active piece in process_input never fails; the active piece is absent only once an
\* empty-hold swap has failed to spawn, and then the game is over and no tick gets that far
PieceNeverAbsent ==
    /\ \A i \in Events("process_input") : IsSome(log[i].pre.tetromino)
    /\ (started /\ ~game_over) => IsSome(tetromino)
    /\ tetromino = None => (game_over \/ ~started)

\* C11 witness: a game was started over the state an empty-hold swap with a blocked spawn had
\* left (no active piece), and the tick of that frame processed its input
RestartedWithoutPiece ==
    /\ \E i \in Events("start_game") :
          /\ log[i].pre.tetromino = None
          /\ log[i].pre.game_over
          /\ IsSome(log[i].pre.hold_tetromino)
    /\ Events("process_input") /= {}

\* the hold request i of the last frame found a piece in the slot and the hold free
OccupiedHold(i) ==
    /\ log[i].op = "hold"
    /\ IsSome(log[i].pre.hold_tetromino)
    /\ ~log[i].pre.hold_used

\* the held piece of state s as it is brought back: spawn orientation, spawn position
Retrieved(s) ==
    [Unwrap(s.hold_tetromino) EXCEPT
        !.shape = TETROMINO_SHAPES[TypeIndex(Unwrap(s.hold_tetromino).t_type) + 1],
        !.pos = SpawnPos]

RetrievedBlocked(s) == check_collision(s.board, Retrieved(s).shape, Retrieved(s).pos)

\* C12: a hold request with an occupied slot exchanges the active and the held piece, the
\* retrieved piece appearing at (3,0) in spawn orientation; if it would collide there the
\* swap is rejected and active piece, held piece and hold-used flag are what they were
HoldExchange ==
    \A i \in Events("hold") :
        OccupiedHold(i) =>
            LET e == log[i]
            IN  IF RetrievedBlocked(e.pre)
                  THEN /\ e.post.tetromino = e.pre.tetromino
                       /\ e.post.hold_tetromino = e.pre.hold_tetromino
                       /\ e.post.hold_used = e.pre.hold_used
                  ELSE /\ e.post.tetromino = Some(Retrieved(e.pre))
                       /\ Unwrap(e.post.hold_tetromino).t_type = Unwrap(e.pre.tetromino).t_type

\* C12, the part that holds: an accepted exchange makes the retrieved piece active at (3,0)
\* in spawn orientation and holds the kind that was active; a rejected one leaves the active
\* piece and the held kind as they were
HoldExchangePieces ==
    \A i \in Events("hold") :
        OccupiedHold(i) =>
            LET e == log[i]
            IN  IF RetrievedBlocked(e.pre)
                  THEN /\ e.post.tetromino = e.pre.tetromino
                       /\ Unwrap(e.post.hold_tetromino).t_type = Unwrap(e.pre.hold_tetromino).t_type
                  ELSE /\ e.post.tetromino = Some(Retrieved(e.pre))
                       /\ Unwrap(e.post.hold_tetromino).t_type = Unwrap(e.pre.tetromino).t_type
                       /\ Unwrap(e.post.hold_tetromino).shape =
                              TETROMINO_SHAPES[TypeIndex(Unwrap(e.pre.tetromino).t_type) + 1]

\* C12 witness: the held I was blocked at the spawn position by column 6, the swap was
\* rejected, and the request used up the hold all the same
HoldRejectedUsed ==
    \E i \in Events("hold") :
        /\ OccupiedHold(i)
        /\ RetrievedBlocked(log[i].pre)
        /\ Unwrap(log[i].pre.hold_tetromino).t_type = "I"
        /\ log[i].post.tetromino = log[i].pre.tetromino
        /\ log[i].post.hold_used

\* the spawns of the last frame that brought in a piece
Spawned == {i \in Events("spawn") : ~log[i].post.game_over}

\* the calls that hold no spawn within them
SpawnFree ==
    {"left", "right", "lock", "collapse", "clear_game_over", "check_for_4x4_squares",
     "update_square_effects"}

\* C13: while the hold-used flag is set a hold request changes neither the active nor the
\* held piece; a request that takes effect sets the flag unless it spawns a piece; and the
\* flag is cleared only by a successful spawn, never by a move, a rotation, a rejected swap
\* or a tick without a spawn
HoldOncePerSpawn ==
    /\ \A i \in Events("hold") :
          LET e == log[i]
          IN  /\ e.pre.hold_used =>
                    /\ e.post.tetromino = e.pre.tetromino
                    /\ e.post.hold_tetromino = e.pre.hold_tetromino
                    /\ e.post.hold_used
              /\ ~e.pre.hold_used => (e.post.hold_used \/ (i > 1 /\ i - 1 \in Spawned))
    /\ \A i \in 1..Len(log) :
          log[i].op \in SpawnFree => (log[i].pre.hold_used => log[i].post.hold_used)
    /\ \A i \in Spawned : ~log[i].post.hold_used
    /\ \A i \in Events("update") :
          (log[i].pre.hold_used /\ ~log[i].post.hold_used) => Spawned /= {}

\* C13 witness: a hold request made while the flag was set after an exchange left both
\* pieces as they were
HoldRefused ==
    \E i \in Events("hold") :
        /\ log[i].pre.hold_used
        /\ IsSome(log[i].pre.hold_tetromino)
        /\ Unwrap(log[i].pre.hold_tetromino).t_type = "L"
        /\ log[i].post.tetromino = log[i].pre.tetromino
        /\ log[i].post.hold_tetromino = log[i].pre.hold_tetromino

\* the bonus a removed row is worth: 500 with a gold bonus cell in it, else 200 with a silver
\* one, else 0
RowBonus(b, y) ==
    IF \E x \in Cols : IsSome(b[y][x]) /\ Unwrap(b[y][x])[2] = "BonusGold" THEN GOLD_POINTS
    ELSE IF \E x \in Cols : IsSome(b[y][x]) /\ Unwrap(b[y][x])[2] = "BonusSilver" THEN SILVER_POINTS
    ELSE 0

RECURSIVE SumBonus(_, _)
SumBonus(b, R) == IF R = {} THEN 0 ELSE LET y == CHOOSE r \in R : TRUE
                                        IN  RowBonus(b, y) + SumBonus(b, R \ {y})

\* C14: the tick in which the clear delay elapses and the pending rows are removed adds to
\* the score, for each removed row, 500 if the row held a gold bonus cell, else 200 if it
\* held a silver bonus cell, else 0
ClearBonus ==
    \A i \in Events("collapse") : \A u \in Events("update") :
        log[u].post.score =
            log[u].pre.score + SumBonus(log[i].pre.board, RowSet(log[i].pre.clearing_lines))

\* C14 witness: row 19 with four gold bonus cells in it was removed and the score stayed
RowBonusLost ==
    \E i \in Events("collapse") : \E u \in Events("update") :
        /\ log[i].pre.clearing_lines = <<19>>
        /\ RowBonus(log[i].pre.board, 19) = GOLD_POINTS
        /\ log[i].post.lines_cleared = log[i].pre.lines_cleared + 1
        /\ log[u].post.score = log[u].pre.score

\* C15: a tick that starts with the clear timer positive and does not bring it to zero or
\* below only decrements the timer: board, pieces, score, lines_cleared, auto-repeat and
\* gravity timers, effects and every other field stay, whatever keys but pause are pressed
PendingOnlyCounts ==
    \A u \in Events("update") :
        LET e == log[u]
        IN  (/\ e.pre.started /\ ~e.pre.game_over /\ ~e.pre.paused
             /\ "Enter" \notin keys_down
             /\ e.pre.line_clear_timer > 0
             /\ e.post.line_clear_timer > 0)
                => /\ e.post.line_clear_timer < e.pre.line_clear_timer
                   /\ e.post = [e.pre EXCEPT !.line_clear_timer = e.post.line_clear_timer]
                   /\ Len(log) = 1

\* C15 witness: with row 19 pending and the bonus square still blinking, a tick with Left,
\* Z, C and Down pressed has counted the timer down and left the rows pending
PendingKeysIgnored ==
    \E u \in Events("update") :
        /\ log[u].pre.line_clear_timer > 0
        /\ log[u].post.line_clear_timer > 0
        /\ log[u].post.line_clear_timer < log[u].pre.line_clear_timer
        /\ log[u].post.clearing_lines = <<19>>
        /\ Len(log[u].post.active_squares) = 1
        /\ {"Left", "Z", "C", "Down"} \subseteq keys_down

\* C16: the pause key toggles paused exactly if game_over is false; a tick that starts
\* paused without a press of the pause key changes nothing at all, and a press of the pause
\* key while paused ends the pause
PauseFreezes ==
    \A u \in Events("update") :
        LET e == log[u]
            pressed == "Enter" \in keys_down
        IN  /\ e.post.paused = (IF pressed /\ ~e.pre.game_over THEN ~e.pre.paused ELSE e.pre.paused)
            /\ (e.pre.paused /\ ~pressed) => (e.post = e.pre /\ Len(log) = 1)

\* C16 witness: a tick with keys but the pause key has passed with the game paused while a
\* line clear was pending, and the countdown stood still
PausedWhilePending ==
    \E u \in Events("update") :
        /\ log[u].pre.paused
        /\ log[u].post.paused
        /\ log[u].pre.line_clear_timer > 0
        /\ log[u].post.line_clear_timer = log[u].pre.line_clear_timer
        /\ keys_down /= {}

\* the rotation requests of the last frame: the logged branches whose key was pressed
Rotations ==
    {i \in Events("rotate_ccw") : "Z" \in keys_down} \cup {i \in Events("rotate_cw") : "X" \in keys_down}

\* the request i as made of piece p: the rotated shape replaces the shape of the active piece
\* exactly if it does not collide at the position of p; the position stays
RotationOf(i, p) ==
    LET e == log[i]
        was == Unwrap(e.pre.tetromino)
        now == Unwrap(e.post.tetromino)
        turned == rotate_shape(p.shape, p.t_type, e.op = "rotate_cw")
    IN  /\ now.pos = was.pos
        /\ now.shape = (IF check_collision(e.pre.board, turned, p.pos) THEN was.shape ELSE turned)

\* C17: a rotation request replaces the shape of the active piece by its rotation about the
\* pivot of its kind exactly if the rotated shape does not collide at the position the piece
\* has when the rotation is applied; otherwise the shape stays; the position never changes
RotationLegal == \A i \in Rotations : RotationOf(i, Unwrap(log[i].pre.tetromino))

\* C17, the part that holds: the same of the piece as it was when the inputs of the tick
\* were read, rotated and tested in the shape and at the position it had then
RotationFromCopy ==
    \A i \in Rotations : \A j \in Events("left") : RotationOf(i, Unwrap(log[j].pre.tetromino))

\* C17 witness: a rotation was applied although the rotated shape collides where the piece is
RotatedOntoCell ==
    \E i \in Rotations :
        LET was == Unwrap(log[i].pre.tetromino)
            now == Unwrap(log[i].post.tetromino)
        IN  /\ now.shape /= was.shape
            /\ ~check_collision(log[i].pre.board, was.shape, was.pos)
            /\ check_collision(log[i].post.board, now.shape, now.pos)

\* C18: the O piece is rotation-invariant: a rotation request, clockwise or counter-clockwise,
\* never changes the board cells an active O occupies
ORotationInvariant ==
    \A i \in Rotations :
        LET was == Unwrap(log[i].pre.tetromino)
            now == Unwrap(log[i].post.tetromino)
        IN  was.t_type = "O" => CellsOf(now.shape, now.pos) = CellsOf(was.shape, was.pos)

\* C18 witness: a clockwise rotation has moved the cells of an O one row up
OMovedUp ==
    \E i \in Rotations :
        LET was == Unwrap(log[i].pre.tetromino)
            now == Unwrap(log[i].post.tetromino)
        IN  /\ was.t_type = "O"
            /\ log[i].op = "rotate_cw"
            /\ was.shape = TETROMINO_SHAPES[2]
            /\ CellsOf(now.shape, now.pos) = {<<c[1], c[2] - 1>> : c \in CellsOf(was.shape, was.pos)}

\* the occupied cells of board b
Filled(b) == {c \in AllCells : IsSome(b[c[2]][c[1]])}

\* every occupied cell of b is a bonus cell with id 0 or a cell of a movable kind with an id
\* from 1 to below next_id, and the cells of one non-zero id are of one kind and at most 4
IdsSound(b, next_id) ==
    LET F == Filled(b)
    IN  /\ \A c \in F :
              \/ CellAt(b, c)[2] \in BonusTypes /\ CellAt(b, c)[3] = 0
              \/ CellAt(b, c)[2] \in Movable /\ CellAt(b, c)[3] >= 1 /\ CellAt(b, c)[3] < next_id
        /\ \A p \in {CellAt(b, c)[3] : c \in F} \ {0} :
              LET P == {c \in F : CellAt(b, c)[3] = p}
              IN  /\ Cardinality(P) <= 4
                  /\ Cardinality({CellAt(b, c)[2] : c \in P}) = 1

\* C19: in every state, and between any two calls of a tick, each occupied cell is a bonus
\* cell with piece id 0 or a movable-kind cell with an id p, 1 <= p < next_piece_id; cells
\* of one non-zero id are of one kind and at most 4; next_piece_id never decreases within a
\* game, and the id a lock gives is on the board nowhere else
PieceIdsSound ==
    /\ IdsSound(board, next_piece_id)
    /\ next_piece_id >= 1
    /\ \A i \in 1..Len(log) :
          /\ IdsSound(log[i].post.board, log[i].post.next_piece_id)
          /\ log[i].op /= "start_game" => log[i].post.next_piece_id >= log[i].pre.next_piece_id
    /\ \A i \in Events("lock") :
          IsSome(log[i].pre.tetromino) =>
              /\ log[i].pre.next_piece_id \notin IdsOn(log[i].pre.board)
              /\ log[i].post.next_piece_id = log[i].pre.next_piece_id + 1

\* C19 witness: a piece was locked under id 7 onto a board that holds bonus cells of id 0
\* and pieces of smaller ids
IdsSeen ==
    \E i \in Events("lock") :
        /\ log[i].pre.next_piece_id = 7
        /\ 0 \in IdsOn(log[i].post.board)
        /\ 7 \in IdsOn(log[i].post.board)
        /\ \E p \in 1..6 : p \in IdsOn(log[i].post.board)
        /\ Cardinality({c \in Filled(log[i].post.board) : CellAt(log[i].post.board, c)[3] = 7}) = 4

\* start_game left every field but the three timers at its initial value, with the first
\* piece counted
ResetAt(e) ==
    /\ e.post.started /\ ~e.post.game_over /\ ~e.post.paused /\ ~e.post.in_panic
    /\ e.post.board = EmptyBoard
    /\ e.post.hold_tetromino = None /\ ~e.post.hold_used
    /\ e.post.score = 0 /\ e.post.lines_cleared = 0
    /\ e.post.line_clear_timer = 0 /\ e.post.clearing_lines = <<>>
    /\ e.post.active_squares = <<>>
    /\ e.post.next_piece_id = 1
    /\ IsSome(e.post.tetromino) /\ IsSome(e.post.next_tetromino)
    /\ e.post.tetromino = Some(NewTetromino(Unwrap(e.post.tetromino).t_type))
    /\ e.post.next_tetromino = Some(NewTetromino(Unwrap(e.post.next_tetromino).t_type))
    /\ e.post.piece_statistics =
          [ZeroStatistics EXCEPT ![Unwrap(e.post.tetromino).t_type] = 1]

\* C20: start_game resets the game state fully: after it board, hold slot and flag, run
\* flags, score, lines_cleared, clear timer and pending rows, effects, next piece id,
\* statistics, the left and right auto-repeat timers and the gravity accumulator have their
\* initial values
StartResetsAll ==
    \A i \in Events("start_game") :
        /\ ResetAt(log[i])
        /\ log[i].post.left_timer = 0
        /\ log[i].post.right_timer = 0
        /\ log[i].post.fall_timer = 0

\* C20, the part that holds: every field but the three timers is reset
StartResetsFields == \A i \in Events("start_game") : ResetAt(log[i])

\* C20 witness: a game started after a game over began with time on the gravity accumulator
RestartKeepsFallTimer ==
    \E i \in Events("start_game") :
        /\ log[i].pre.game_over
        /\ log[i].pre.fall_timer > 0
        /\ log[i].post.fall_timer = log[i].pre.fall_timer
        /\ log[i].post.board = EmptyBoard

\* C21: in every state of a running game (started, not game over) with no clear pending the
\* active piece is legal: its four cells are inside the grid and none is on an occupied
\* cell, after any combination of inputs in one tick, after gravity and after an effect
PieceLegal ==
    (started /\ ~game_over /\ line_clear_timer <= 0 /\ IsSome(tetromino)) =>
        \A c \in CellsOf(Unwrap(tetromino).shape, Unwrap(tetromino).pos) :
            InGrid(c[1], c[2]) /\ ~Occupied(board, c)

\* C21 witness: the game runs, no clear is pending, and after a tick with Left and X the
\* active O has cells in column -1
PieceOutside ==
    /\ started /\ ~game_over /\ line_clear_timer <= 0
    /\ IsSome(tetromino)
    /\ Unwrap(tetromino).t_type = "O"
    /\ {"Left", "X"} \subseteq keys_down
    /\ \E c \in CellsOf(Unwrap(tetromino).shape, Unwrap(tetromino).pos) : c[1] = -1

\* the call that made the lock logged at i (a hard drop or a gravity step): the first one
\* logged after it; its post-state is the state lock_tetromino returned
LockCaller(i) ==
    CHOOSE j \in Events("hard_drop") \cup Events("gravity") :
        j > i /\ \A k \in Events("hard_drop") \cup Events("gravity") : k > i => j <= k

\* the rows of board b with all 10 cells occupied
FullRowSet(b) == {y \in Rows : \A x \in Cols : IsSome(b[y][x])}

\* C22: after a lock a clear is pending exactly if some row has all 10 cells occupied, bonus
\* cells included; the pending rows are then exactly the full rows, in ascending order, and
\* the countdown is 0.27; if no row is full, nothing is pending and the next piece is
\* spawned (or the game ended by the blocked spawn) in the same step
LockThenClearOrSpawn ==
    \A i \in Events("lock") :
        LET e == log[i]
            F == FullRowSet(e.post.board)
            after == log[LockCaller(i)].post
        IN  /\ \E j \in Events("hard_drop") \cup Events("gravity") : j > i
            /\ RowSet(after.clearing_lines) = F
            /\ \A a, b \in 1..Len(after.clearing_lines) :
                  a < b => after.clearing_lines[a] < after.clearing_lines[b]
            /\ IF F /= {}
                  THEN /\ after.line_clear_timer = LINE_CLEAR_DELAY
                       /\ LockCaller(i) = i + 1
                       /\ after.board = e.post.board
                       /\ after.tetromino = e.post.tetromino
                       /\ after.next_tetromino = e.post.next_tetromino
                  ELSE /\ after.line_clear_timer = e.pre.line_clear_timer
                       /\ e.pre.started =>
                             /\ log[i + 1].op = "spawn"
                             /\ log[i + 1].pre = e.post
                             /\ \/ after.tetromino = e.post.next_tetromino
                                \/ after.game_over

\* C22 witness: the lock of the J filled row 19, four cells of which are gold bonus cells,
\* and row 19 is pending with the countdown at 0.27
BonusRowPending ==
    \E i \in Events("lock") :
        /\ FullRowSet(log[i].post.board) = {19}
        /\ FullRowSet(log[i].pre.board) = {}
        /\ RowBonus(log[i].post.board, 19) = GOLD_POINTS
        /\ clearing_lines = <<19>>
        /\ line_clear_timer = LINE_CLEAR_DELAY

\* the calls a tick makes when it removes the pending rows
CollapseCalls == {"collapse", "spawn", "clear_game_over", "check_for_4x4_squares", "update"}

\* C23: after a lock that fills rows the collapse happens once, in the first tick that runs
\* (game not paused) at which the frame times counted since the lock have used up 0.27,
\* not earlier; that tick does the collapse and the spawn or game over that follows and no
\* input, gravity or effect update
CollapseOnExpiry ==
    /\ h_clear.last /= "stray"
    /\ Events("collapse") /= {} <=> h_clear.last = "collapse"
    /\ h_clear.last = "collapse" =>
          /\ Remaining(LINE_CLEAR_DELAY, h_clear.ticks) <= 0
          /\ Remaining(LINE_CLEAR_DELAY, SubSeq(h_clear.ticks, 1, Len(h_clear.ticks) - 1)) > 0
          /\ Cardinality(Events("collapse")) = 1
          /\ \A i \in 1..Len(log) : log[i].op \in CollapseCalls
          /\ clearing_lines = <<>>
    /\ h_clear.last = "count" =>
          (Remaining(LINE_CLEAR_DELAY, h_clear.ticks) > 0 /\ Len(log) = 1)
    /\ h_clear.last = "paused" => Len(log) = 1
    /\ h_clear.pending <=> clearing_lines /= <<>>

\* C23 witness: a tick of 0.077 with keys pressed counted the pending rows down, and the
\* next tick, 0.357 long, removed them and spawned the next piece
CollapsedOnSecond ==
    /\ h_clear.last = "collapse"
    /\ h_clear.ticks = <<FrameTime(23), FrameTime(107)>>
    /\ Events("spawn") /= {}
    /\ Events("process_input") = {}

\* the origins of the windows that qualify on board b
QualifyingOrigins(b) == {o \in Origins : Qualifies(b, o[1], o[2])}

\* C24: whenever a lock leaves a qualifying 4x4 window on the board, an effect is anchored
\* at that window when the call that made the lock returns, also when the lock filled rows
DetectorOnEveryLock ==
    \A i \in Events("lock") :
        \A o \in QualifyingOrigins(log[i].post.board) :
            <<o[1], o[2]>> \in Anchors(log[LockCaller(i)].post.active_squares)

\* C24, the part that holds: the same for the locks that fill no row
DetectorOnPlainLock ==
    \A i \in Events("lock") :
        FullRowSet(log[i].post.board) = {} =>
            \A o \in QualifyingOrigins(log[i].post.board) :
                <<o[1], o[2]>> \in Anchors(log[LockCaller(i)].post.active_squares)

\* C24 witness: the lock of the fourth I completed the window at (3,16) and filled rows
\* 16..19; the hard drop returned with the rows pending and no effect registered
SquareMissed ==
    \E i \in Events("lock") :
        /\ <<3, 16>> \in QualifyingOrigins(log[i].post.board)
        /\ FullRowSet(log[i].post.board) = {16, 17, 18, 19}
        /\ log[LockCaller(i)].post.active_squares = <<>>
        /\ active_squares = <<>>
        /\ clearing_lines = <<16, 17, 18, 19>>

\* C25: no two active effects are anchored at the same origin
NoSharedOrigin ==
    \A i, j \in 1..Len(active_squares) :
        (active_squares[i].x = active_squares[j].x /\ active_squares[i].y = active_squares[j].y)
            => i = j

\* C25 witness: the detector was re-run on a board whose window at the origin of a blinking
\* effect still qualifies, and it added nothing
DetectorRerun ==
    \E i \in Events("check_for_4x4_squares") :
        /\ log[i].pre.active_squares /= <<>>
        /\ \E o \in Anchors(log[i].pre.active_squares) : Qualifies(log[i].pre.board, o[1], o[2])
        /\ Added(log[i]) = {}
        /\ Len(active_squares) = 1

\* the cells of board b that are bonus cells
BonusCells(b) == {c \in AllCells : IsSome(b[c[2]][c[1]]) /\ CellAt(b, c)[2] \in BonusTypes}

\* board b with the windows of the effects in S turned into bonus cells with piece-id 0
WithBonus(b, S) ==
    [y \in Rows |-> [x \in Cols |->
        IF \E sq \in S : <<x, y>> \in Window(sq.x, sq.y)
          THEN LET sq == CHOOSE q \in S : <<x, y>> \in Window(q.x, q.y)
               IN  Some(<<IF sq.is_gold THEN GOLD_COLOR ELSE SILVER_COLOR,
                          IF sq.is_gold THEN "BonusGold" ELSE "BonusSilver", 0>>)
          ELSE b[y][x]]]

\* C26, the part that holds: an effect is registered with flash on, a 0.3 phase timer and
\* 6 blinks; its phases advance by the frame time of the full-pipeline ticks only, a blink
\* is consumed on every on-to-off toggle, and the effect is removed, and its window turned
\* into bonus cells of its kind with piece-id 0, in the tick of its 11th phase expiry and
\* in no other
BlinkPhases ==
    ~panicked =>
        /\ Anchors(active_squares) = {<<w.x, w.y>> : w \in h_blink.live}
        /\ \A i \in 1..Len(active_squares) :
              LET sq == active_squares[i]
              IN  \E w \in h_blink.live :
                      /\ w.x = sq.x /\ w.y = sq.y
                      /\ sq.timer = w.t
                      /\ sq.flash_on <=> w.n % 2 = 0
                      /\ sq.blinks_remaining = 6 - ((w.n + 1) \div 2)
        /\ \A i \in Events("check_for_4x4_squares") : \A sq \in Added(log[i]) :
              sq.flash_on /\ sq.timer = SQUARE_PHASE /\ sq.blinks_remaining = 6
        /\ \A i \in Events("update_square_effects") :
              /\ {<<sq.x, sq.y>> : sq \in Converted(log[i])} = h_blink.done
              /\ log[i].post.board = WithBonus(log[i].pre.board, Converted(log[i]))
        /\ Events("update_square_effects") = {} => h_blink.done = {}
        /\ \A op \in {"lock", "spawn", "check_for_4x4_squares", "left", "right", "hold"} :
              \A i \in Events(op) : BonusCells(log[i].post.board) = BonusCells(log[i].pre.board)

\* the cells of the window of effect sq are the cells it was registered with
WindowKept(b, sq) ==
    \A dy \in 0..3 : \A dx \in 0..3 : b[sq.y + dy][sq.x + dx] = Some(sq.original[dy][dx])

\* C26: the phases of an effect as above, and until its 11th phase expiry the cells of its
\* window keep the kind and the piece-id they had when it was registered
BlinkLifecycle ==
    /\ BlinkPhases
    /\ \A i \in 1..Len(active_squares) : WindowKept(board, active_squares[i])

\* C26 witness: a row was removed under a blinking square, and the top row of its window
\* no longer holds the cells it was registered with
BlinkingWindowMoved ==
    /\ Len(active_squares) = 1
    /\ Events("collapse") /= {}
    /\ active_squares[1].blinks_remaining > 0
    /\ ~WindowKept(board, active_squares[1])
    /\ \E dx \in 0..3 : board[active_squares[1].y][active_squares[1].x + dx] = None

\* the score a call added
Gain(e) == e.post.score - e.pre.score

\* C27: the score is 500 times the number of gold squares plus 200 times the number of
\* silver squares whose blinks have ended in this game; no call lowers it, and only the
\* call that advances the effects changes it, by the points of the squares that end in it:
\* locks, collapses, spawns, moves, rotations and holds leave it as it is
ScoreFromSquares ==
    ~panicked =>
        /\ score = 500 * h_blink.golds + 200 * h_blink.silvers
        /\ \A i \in 1..Len(log) :
              /\ log[i].op /= "start_game" => Gain(log[i]) >= 0
              /\ log[i].op \notin {"start_game", "update", "update_square_effects"}
                    => Gain(log[i]) = 0
        /\ \A u \in Events("update") :
              \/ Gain(log[u]) = 0
              \/ /\ h_blink.done /= {}
                 /\ \E i \in Events("update_square_effects") :
                        /\ Gain(log[i]) = Gain(log[u])
                        /\ Gain(log[i]) = SumPoints(Converted(log[i]))

\* C27 witness: the gold square's blinks ended in this tick and the score went from 0 to 500
SquareScored ==
    /\ h_blink.done = {<<3, 16>>}
    /\ h_blink.golds = 1 /\ h_blink.silvers = 0
    /\ score = 500
    /\ \E u \in Events("update") : log[u].pre.score = 0

\* the fall interval of the last frame: 1/15 with the down key held, 1/3 without
IntervalNow == IF "Down" \in keys_down THEN FallInterval(SOFT_DROP_SPEED) ELSE FallInterval(FALL_SPEED)

\* the row of the active piece in state s
RowOf(s) == Unwrap(s.tetromino).pos[2]

\* C28: a tick that advances gravity consumes every whole fall interval, so the gravity
\* accumulator is below one interval when the gravity step returns
GravityConsumesAll ==
    \A i \in Events("gravity") :
        IsSome(log[i].pre.tetromino) => log[i].post.fall_timer < IntervalNow

\* C28, the part that holds: the gravity step moves the piece down or locks it exactly if
\* the accumulator has reached the interval, subtracts one interval then, and moves the
\* piece by one row at most
GravityOneStep ==
    \A i \in Events("gravity") :
        LET e == log[i]
        IN  IsSome(e.pre.tetromino) =>
               \/ /\ e.post.tetromino = e.pre.tetromino
                  /\ e.post.board = e.pre.board
                  /\ e.post.fall_timer >= e.pre.fall_timer
                  /\ e.post.fall_timer < IntervalNow
               \/ /\ e.post.board = e.pre.board
                  /\ IsSome(e.post.tetromino)
                  /\ RowOf(e.post) = RowOf(e.pre) + 1
               \/ \E j \in Events("lock") : j < i /\ log[j].pre.tetromino = e.pre.tetromino

\* C28 witness: in a frame of 0.717 s without keys the I fell one row and the accumulator
\* was left above the fall interval of 1/3
IntervalLeftOver ==
    \E i \in Events("gravity") :
        /\ keys_down = {}
        /\ log[i].pre.fall_timer < FallInterval(FALL_SPEED)
        /\ log[i].post.fall_timer >= FallInterval(FALL_SPEED)
        /\ RowOf(log[i].post) = RowOf(log[i].pre) + 1
        /\ log[i].post.board = log[i].pre.board

\* C29: holding the down key changes only the fall interval: the input step of a tick in
\* which no other key is down leaves the piece and the gravity accumulator as they are
DownOnlySpeeds ==
    \A i \in Events("process_input") :
        keys_down = {"Down"} =>
            /\ log[i].post.tetromino = log[i].pre.tetromino
            /\ log[i].post.fall_timer = log[i].pre.fall_timer

\* C29 witness: with only the down key held the input step moved the piece down a row and
\* cleared the accumulator, and the gravity step of the same tick, its accumulator below
\* 1/15, moved nothing
DownMovedByInput ==
    \E i \in Events("process_input") : \E g \in Events("gravity") :
        /\ keys_down = {"Down"}
        /\ RowOf(log[i].post) = RowOf(log[i].pre) + 1
        /\ log[i].post.fall_timer = 0
        /\ log[g].post.tetromino = log[g].pre.tetromino
        /\ log[g].post.fall_timer < FallInterval(SOFT_DROP_SPEED)

\* 20 minus the index of the topmost row of b with an occupied cell, 0 for an empty board
Fullness(b) ==
    LET used == {y \in Rows : \E x \in Cols : IsSome(b[y][x])}
    IN  IF used = {} THEN 0 ELSE 20 - (CHOOSE y \in used : \A z \in used : y <= z)

\* the tick logged at u ran the full pipeline: the game was started, not over and not
\* paused, and no clear was pending
FullPipeline(u) ==
    /\ log[u].pre.started /\ ~log[u].pre.game_over /\ ~paused
    /\ log[u].pre.line_clear_timer <= 0

\* C30: at the end of every tick that runs the full pipeline in_panic is true exactly if
\* the fullness of the board is at least 12, and in_panic is false when a game starts
PanicTracksFullness ==
    ~panicked =>
        /\ \A u \in Events("update") :
              FullPipeline(u) =>
                  (log[u].post.in_panic <=> Fullness(log[u].post.board) >= 12)
        /\ \A i \in Events("start_game") : ~log[i].post.in_panic

\* C30 witness: the lock of the sixth O raised the fullness from 10 to 12 and the tick
\* ended with in_panic turned on
PanicTurnedOn ==
    \E u \in Events("update") :
        /\ FullPipeline(u)
        /\ Fullness(log[u].pre.board) = 10 /\ ~log[u].pre.in_panic
        /\ Fullness(board) = 12 /\ in_panic
        /\ ~panicked

\* C31: a piece is locked at most once: between two locks of one tick a spawn has made
\* another piece active, and a lock allocates one piece-id
LockedOnce ==
    \A i, j \in Events("lock") :
        i < j => /\ \E k \in Events("spawn") : i < k /\ k < j
                 /\ log[j].pre.tetromino /= log[i].pre.tetromino

\* C31, the part that holds: a tick that begins with a clear pending locks nothing, and a
\* single lock allocates exactly one piece-id
LockedOnceWhilePending ==
    /\ \A i \in Events("lock") : log[i].post.next_piece_id = log[i].pre.next_piece_id + 1
    /\ \A u \in Events("update") : log[u].pre.line_clear_timer > 0 => Events("lock") = {}

\* C31 witness: the hard drop filled a row and left the piece active; the gravity step of
\* the same tick locked the same piece again under a second piece-id
LockedTwice ==
    \E i, j \in Events("lock") :
        /\ i < j
        /\ log[j].pre.tetromino = log[i].pre.tetromino
        /\ FullRowSet(log[i].post.board) /= {}
        /\ ~\E k \in Events("spawn") : i < k /\ k < j
        /\ log[j].post.next_piece_id = log[i].pre.next_piece_id + 2
        /\ \E g \in Events("gravity") : g > j
        /\ \E c \in CellsOf(Unwrap(log[i].pre.tetromino).shape, Unwrap(log[i].pre.tetromino).pos) :
               /\ CellAt(log[i].post.board, c)[3] = log[i].pre.next_piece_id
               /\ CellAt(log[j].post.board, c)[3] = log[j].pre.next_piece_id

\* C32: the windows of any two active effects have no cell in common
EffectsDisjoint ==
    \A i, j \in 1..Len(active_squares) :
        i /= j => Window(active_squares[i].x, active_squares[i].y)
                    \cap Window(active_squares[j].x, active_squares[j].y) = {}

\* C32 witness: five I lie in columns 3..6, rows 15..19; the effect of the lower four blinks
\* at (3,16) and the lock of the fifth registered a second effect at (3,15)
EffectsOverlap ==
    /\ Anchors(active_squares) = {<<3, 16>>, <<3, 15>>}
    /\ \E i \in Events("check_for_4x4_squares") :
          /\ Anchors(log[i].pre.active_squares) = {<<3, 16>>}
          /\ \E sq \in Added(log[i]) : sq.x = 3 /\ sq.y = 15
    /\ \A c \in Window(3, 15) \cup Window(3, 16) : CellAt(board, c)[2] = "I"

\* the cells of board b that are occupied
OccupiedCells(b) == {c \in AllCells : IsSome(b[c[2]][c[1]])}

\* C33: when an effect ends, the cells of its window are still the cells it was registered
\* with, so the conversion leaves the set of occupied cells as it is
ConversionKeepsOccupancy ==
    \A i \in Events("update_square_effects") :
        /\ \A sq \in Converted(log[i]) : WindowKept(log[i].pre.board, sq)
        /\ OccupiedCells(log[i].post.board) = OccupiedCells(log[i].pre.board)

\* C33, the part that holds: the conversion writes the 16 cells of the effect's window and
\* no other cell
ConversionInWindow ==
    \A i \in Events("update_square_effects") : \A c \in AllCells :
        log[i].post.board[c[2]][c[1]] /= log[i].pre.board[c[2]][c[1]]
            => \E sq \in Converted(log[i]) : c \in Window(sq.x, sq.y)

\* C33 witness: row 19 was removed while the square at (3,16) blinked; when its blinks
\* ended, the empty cells of row 16 became gold cells above the empty cells of columns 1..2
FillerOnEmpty ==
    \E i \in Events("update_square_effects") :
        /\ \E sq \in Converted(log[i]) : sq.x = 3 /\ sq.y = 16
        /\ \A x \in 3..6 : /\ log[i].pre.board[16][x] = None
                            /\ IsSome(board[16][x]) /\ CellAt(board, <<x, 16>>)[2] = "BonusGold"
        /\ lines_cleared = 1
        /\ score = 500

\* C34: in a running game with no clear pending the board has no full row
NoFullRowUnlessPending ==
    (started /\ ~game_over /\ clearing_lines = <<>>) => FullRowSet(board) = {}

\* C34, the part that holds: a row becomes full only in a lock or in the conversion of an
\* effect, and a collapse leaves no full row behind
FullOnlyByLockOrFiller ==
    /\ \A i \in 1..Len(log) :
          log[i].op \in {"spawn", "check_for_4x4_squares", "collapse", "left", "right",
                         "rotate_ccw", "rotate_cw", "hold", "start_game"}
              => FullRowSet(log[i].post.board) \subseteq FullRowSet(log[i].pre.board)
    /\ \A i \in Events("collapse") :
          FullRowSet(log[i].pre.board) = RowSet(log[i].pre.clearing_lines)
              => FullRowSet(log[i].post.board) = {}

\* C34 witness: row 16, the top row of a blinking square, was removed and the row above it
\* came down with columns 3..6 empty; the conversion of the square wrote gold cells into
\* them, and row 16 is full in a running game with nothing pending and no lock in the tick
RowFilledByFiller ==
    /\ started /\ ~game_over /\ ~paused
    /\ clearing_lines = <<>> /\ line_clear_timer <= 0
    /\ FullRowSet(board) = {16}
    /\ Events("lock") = {}
    /\ \E i \in Events("update_square_effects") :
          /\ FullRowSet(log[i].pre.board) = {}
          /\ \A x \in 3..6 : log[i].pre.board[16][x] = None

\* C35: the active piece is eventually locked, or held, or the game ends, whatever keys are
\* pressed or held
EventuallyConsumed == <>(Events("lock") /= {} \/ game_over \/ hold_used)

\* C35, the part that holds: the piece is eventually locked if from some frame on the down
\* key is no longer down
ConsumedOnceDownReleased ==
    (<>[]("Down" \notin keys_down)) => <>(Events("lock") /= {})

\* C35 witness: the O rests on the floor with the down key held; in a frame of 0.01 s the
\* input step cleared the gravity accumulator, the gravity step counted it up to 0.01 and
\* did not lock, and the state is the one the frame started in
DownHoldsPiece ==
    /\ keys_down = {"Down"}
    /\ IsSome(tetromino) /\ Unwrap(tetromino).t_type = "O" /\ RowOf(Here) = 18
    /\ fall_timer = FrameTime(3)
    /\ Events("lock") = {}
    /\ \E u \in Events("update") : log[u].pre.tetromino = tetromino /\ log[u].pre.fall_timer = FrameTime(3)
    /\ \E g \in Events("gravity") : log[g].pre.fall_timer = 0 /\ log[g].post.fall_timer = FrameTime(3)

\* C36: the audio manager's paused flag equals the game's
PauseAgrees == mus_mgr.paused = paused

\* C36, the part that holds: a tick toggles both flags or neither
PauseToggledTogether ==
    \A u \in Events("update") :
        (log[u].post.mus_mgr.paused /= log[u].pre.mus_mgr.paused)
            <=> (log[u].post.paused /= log[u].pre.paused)

\* C36 witness: the pause key was pressed on the start screen and a game was started then:
\* the game runs unpaused and the audio manager is paused
AudioLeftPaused ==
    /\ started /\ ~game_over /\ ~paused
    /\ mus_mgr.paused
    /\ \E i \in Events("start_game") :
          /\ log[i].pre.paused /\ log[i].pre.mus_mgr.paused /\ ~log[i].pre.started
          /\ ~log[i].post.paused /\ log[i].post.mus_mgr.paused

\* C37: whenever a tick toggles the panic mode, mus_track is at least 1 and the track index
\* mus_track - 1 that toggle_panic computes is (mus_track - 1) mod 3, in 0..2
PanicIndexInList ==
    \A u \in Events("update") :
        log[u].post.mus_mgr.panic /= log[u].pre.mus_mgr.panic =>
            /\ log[u].post.mus_mgr.mus_track >= 1
            /\ log[u].post.mus_mgr.mus_track - 1 = (log[u].post.mus_mgr.mus_track - 1) % 3
            /\ ~log[u].post.panicked

\* C37, the part that holds: mus_track is at least 1 whenever a tick toggles the panic mode
PanicTrackPositive ==
    \A u \in Events("update") :
        log[u].post.mus_mgr.panic /= log[u].pre.mus_mgr.panic
            => log[u].post.mus_mgr.mus_track >= 1

\* C37 witness: after three song changes mus_track is 4; the lock of the sixth O raised the
\* fullness to 12, toggle_panic turned the panic on and read MUSIC_LIST[3]: the process
\* aborted
PanicIndexOutside ==
    /\ panicked
    /\ mus_mgr.mus_track = 4 /\ mus_mgr.panic /\ in_panic
    /\ \E u \in Events("update") :
          /\ ~log[u].pre.mus_mgr.panic /\ ~log[u].pre.in_panic
          /\ Fullness(log[u].post.board) = 12

====
